---------------------------- MODULE Spec2Model ----------------------------
(***************************************************************************)
(* Model of the point-of-sale front-end redteltel/regi:                    *)
(*   - the cart and the checkout totals of App.tsx,                        *)
(*   - the Bluetooth connection manager and transport writer of            *)
(*     services/printerService.ts (BLE variant),                           *)
(*   - the print orchestration (handlePrint) of App.tsx, whose calls       *)
(*     connectBluetooth() and restoreBluetoothConnection() are the         *)
(*     manager's connect() and restoreConnection().                        *)
(***************************************************************************)
EXTENDS Integers, Sequences, FiniteSets, TLC

(***************************************************************************)
(* Bounds of the model                                                     *)
(***************************************************************************)
\* longest text the discount field is given
MaxDiscountLen == 3
\* largest quantity a cart line is raised to
MaxQty == 2
\* longest payload handed to writeCommand on its own
MaxPayloadLen == 41
\* most chunks the printer takes before the link fails, where a print is made to fail
MaxChunksAccepted == 2

(***************************************************************************)
(* Cart and checkout totals (App.tsx)                                      *)
(***************************************************************************)
VARIABLES
    cart,       \* useState<CartItem[]>: sequence of [id, price, quantity]
    discount,   \* useState<string>: text of the discount field, a sequence of characters
    appState    \* useState<AppState>: "SCANNING", "LIST" or "PREVIEW"

cartVars == <<cart, discount, appState>>

VARIABLES
    device,                \* PrinterService.device
    characteristic,        \* PrinterService.characteristic
    onDisconnectCallback,  \* PrinterService.onDisconnectCallback is set
    gattConnected,         \* device.gatt.connected of every BluetoothDevice
    listeners,             \* 'gattserverdisconnected' listeners (handleDisconnect) per device
    callbackCalls,         \* number of times the registered callback has run
    printerStatus,         \* App: useState<PrinterStatus> (isConnected, type)
    connPc,                \* connect(): the await it is suspended at
    connDevice,            \* connect(): const device
    connServices,          \* connect(): const services (list), the place of the scan
                           \* loop in it (next), the enumerations made so far (pass)
    targetChar,            \* connect(): let targetChar
    fallbackChar,          \* connect(): let fallbackChar
    restPc,                \* restoreConnection(): the await it is suspended at
    restDevice,            \* restoreConnection(): the device whose gatt.connect() is pending
    restFrom,              \* restoreConnection(): the state the running call was called in
    lastOp,                \* the last step of connect, restore, disconnect, a disconnect event or
                           \* handlePrint; rejected: the call of connect() that failed on that step
    connCaller,            \* who awaits connect(): "App" (handleConnectBluetooth), "AppEarlier"
                           \* (handleConnectPrinter) or "caller"
    restCaller,            \* who awaits restoreConnection(): "App" (handlePrint) or "caller"
    isProcessing,          \* App: useState isProcessing
    alert,                 \* App: the last alert() shown
    printPc,               \* handlePrint / printReceipt / writeCommand: the await it is suspended at
    job,                   \* printReceipt: its arguments [items, total], No.Job when none runs
    curCmd,                \* printReceipt: which of its writeCommand calls is running (0: none)
    curOff,                \* writeCommand: i
    canWriteNoResp,        \* writeCommand: const canWriteNoResp
    pendingChar,           \* the characteristic object the write in flight was issued on
    written,               \* the chunks the printer accepted since a handlePrint began with
                           \* no other one suspended, in order
    chunk,                 \* the write attempts made for the current chunk
    run,                   \* what this handlePrint has done so far
    scanPc,                \* Camera handleCapture: "ocr" while it awaits, then the status it
                           \* shows until its timer fires ("success", "error"), or "dialog"
    cooldown,              \* Camera useState(0): the seconds left of the rate-limit cooldown
    otherTap,              \* the locals of another invocation of handlePrint, suspended
    sheet,                 \* sheetService: memoryCache, the localStorage items (stored,
                           \* timestamp), the last Date.now() read (now) and the call of
                           \* fetchDatabase or fetchWithRetry made last: its caller, build
                           \* and forceUpdate, the retries left and asked for (r0), the
                           \* fetch attempts made, what they settled with (seen), where it
                           \* is (pc: "idle", "fetch", "wait", "returned", "thrown") and
                           \* what it returned or threw (result)
    receiptArgs,           \* the composing printReceipt: its arguments
    adds,                  \* the composing printReceipt: the arrays given to add(), in order
    buffer,                \* the RawBT service: this.buffer
    timer,                 \* the RawBT service: this.timer is pending
    calls,                 \* the calls of printReceipt made so far: arguments and arrays added
    ocr                    \* extractPartNumber: its build (maxAttempts, the check for 400/403),
                           \* attempts, the outcomes of its requests (seen), where it is
                           \* (pc: "idle", "request", "wait", "returned", "thrown")

mgrVars == <<device, characteristic, onDisconnectCallback, gattConnected, listeners>>
connVars == <<connPc, connDevice, connServices, targetChar, fallbackChar>>
restVars == <<restPc, restDevice, restFrom>>

receiptVars == <<receiptArgs, adds, buffer, timer, calls>>
moreVars == <<scanPc, cooldown, otherTap, sheet, ocr, receiptVars>>
appVars == <<callbackCalls, printerStatus>>
callerVars == <<connCaller, restCaller>>
printVars == <<isProcessing, alert, printPc, job, curCmd, curOff, canWriteNoResp,
               pendingChar, written, chunk, run>>
otherVars == <<mgrVars, connVars, restVars, appVars, lastOp, callerVars, printVars, moreVars>>

\* products a scan or the service-item list can hand to handleProductFound
Catalog == { [id |-> "A", price |-> 1000], [id |-> "B", price |-> 500] }

\* the product handleCapture makes of a part number the sheet does not know
UnknownProduct == [id |-> "N", price |-> 0]

Digits == {"0", "1", "2", "3", "4", "5", "6", "7", "8", "9"}

RECURSIVE AllDigits(_)
AllDigits(s) == s = <<>> \/ (Head(s) \in Digits /\ AllDigits(Tail(s)))

\* position of the first "." of s, 0 when there is none
RECURSIVE DotPos(_, _)
DotPos(s, i) ==
    IF i > Len(s) THEN 0
    ELSE IF s[i] = "." THEN i ELSE DotPos(s, i + 1)

\* the value an <input type="number"> reports: the typed text when it is a
\* valid floating-point number, the empty string otherwise
\* (an optional "-" and an unsigned decimal: digits, digits "." digits, or
\* "." digits)
NumberInputValue(s) ==
    LET body == IF s # <<>> /\ Head(s) = "-" THEN Tail(s) ELSE s
        UnsignedDecimal(t) ==
            LET p == DotPos(t, 1) IN
            IF p = 0 THEN t # <<>> /\ AllDigits(t)
            ELSE /\ AllDigits(SubSeq(t, 1, p - 1))
                 /\ p < Len(t)
                 /\ AllDigits(SubSeq(t, p + 1, Len(t)))
    IN  IF UnsignedDecimal(body) THEN s ELSE <<>>

\* the texts of at most n characters typed into the discount field
RECURSIVE StringsUpTo(_)
StringsUpTo(n) ==
    IF n = 0 THEN { <<>> }
    ELSE LET shorter == StringsUpTo(n - 1)
             DiscountChars == {"0", "3", "-", "."}
         IN  shorter \cup { Append(s, c) : s \in { t \in shorter : Len(t) = n - 1 },
                                           c \in DiscountChars }

\* a JavaScript number: an integer or NaN
Num(n) == [nan |-> FALSE, v |-> n]
NaN == [nan |-> TRUE, v |-> 0]

\* parseInt(s, 10): optional sign, then the longest prefix of digits; NaN when
\* that prefix is empty
RECURSIVE ParseDigits(_, _)
ParseDigits(s, acc) ==
    LET DigitVal(c) ==
            CASE c = "0" -> 0 [] c = "1" -> 1 [] c = "2" -> 2 [] c = "3" -> 3
              [] c = "4" -> 4 [] c = "5" -> 5 [] c = "6" -> 6 [] c = "7" -> 7
              [] c = "8" -> 8 [] c = "9" -> 9
    IN  IF s = <<>> \/ Head(s) \notin Digits THEN acc
        ELSE ParseDigits(Tail(s), acc * 10 + DigitVal(Head(s)))

parseInt(s) ==
    LET neg  == s # <<>> /\ Head(s) = "-"
        body == IF s # <<>> /\ Head(s) \in {"-", "+"} THEN Tail(s) ELSE s
    IN  IF body = <<>> \/ Head(body) \notin Digits THEN NaN
        ELSE Num((IF neg THEN -1 ELSE 1) * ParseDigits(body, 0))

\* cart.reduce((acc, item) => acc + item.price * item.quantity, 0)
RECURSIVE itemsTotalOf(_)
itemsTotalOf(c) ==
    IF c = <<>> THEN 0
    ELSE itemsTotalOf(SubSeq(c, 1, Len(c) - 1)) + c[Len(c)].price * c[Len(c)].quantity

\* const subTotal = itemsTotal
subTotal == itemsTotalOf(cart)

\* Math.floor(subTotal * 0.10); for a non-negative integer below 2^53 the
\* double product is never below the exact tenth, so the floor is the quotient
tax == subTotal \div 10

\* parseInt(discount || '0', 10)
discountVal == parseInt(IF discount = <<>> THEN <<"0">> ELSE discount)

\* Math.max(0, initialTotal - discountVal), initialTotal = subTotal + tax;
\* Math.max and the subtraction give NaN when an argument is NaN
totalAmount ==
    LET MathMax(a, b) ==
            IF a.nan \/ b.nan THEN NaN
            ELSE Num(IF a.v >= b.v THEN a.v ELSE b.v)
        NumSub(a, b) == IF a.nan \/ b.nan THEN NaN ELSE Num(a.v - b.v)
        initialTotal == subTotal + tax
    IN  MathMax(Num(0), NumSub(Num(initialTotal), discountVal))

InCart(id) == \E i \in 1..Len(cart) : cart[i].id = id

\* handleProductFound that appends a line whether or not the id is in the cart
handleProductFoundAppends(product) ==
    /\ \A i \in 1..Len(cart) : cart[i].id = product.id => cart[i].quantity < MaxQty
    /\ cart' = Append(cart, [id |-> product.id, price |-> product.price, quantity |-> 1])
    /\ UNCHANGED <<discount, appState, otherVars>>

handleProductFound(product) ==
    /\ \A i \in 1..Len(cart) : cart[i].id = product.id => cart[i].quantity < MaxQty
    /\ cart' = IF InCart(product.id)
               THEN [i \in 1..Len(cart) |->
                        IF cart[i].id = product.id
                        THEN [cart[i] EXCEPT !.quantity = @ + 1]
                        ELSE cart[i]]
               ELSE Append(cart, [id |-> product.id, price |-> product.price, quantity |-> 1])
    /\ UNCHANGED <<discount, appState, otherVars>>

\* updateQuantity without the filter of the items left at zero
updateQuantityKeepsZero(id, delta) ==
    /\ InCart(id)
    /\ \A i \in 1..Len(cart) : cart[i].id = id => cart[i].quantity + delta <= MaxQty
    /\ cart' = [i \in 1..Len(cart) |->
                   IF cart[i].id = id
                   THEN [cart[i] EXCEPT !.quantity = IF @ + delta > 0 THEN @ + delta ELSE 0]
                   ELSE cart[i]]
    /\ lastOp' = [name |-> "updateQuantity", info |-> id, again |-> FALSE, from |-> "none",
                  rejected |-> "none"]
    /\ UNCHANGED <<discount, appState, mgrVars, connVars, restVars, appVars, callerVars, printVars,
                   moreVars>>

\* the - and + buttons of a cart line
updateQuantity(id, delta) ==
    /\ InCart(id)
    /\ \A i \in 1..Len(cart) : cart[i].id = id => cart[i].quantity + delta <= MaxQty
    /\ LET mapped == [i \in 1..Len(cart) |->
                        IF cart[i].id = id
                        THEN [cart[i] EXCEPT !.quantity =
                                 IF @ + delta > 0 THEN @ + delta ELSE 0]
                        ELSE cart[i]]
       IN cart' = SelectSeq(mapped, LAMBDA item : item.quantity > 0)
    /\ lastOp' = [name |-> "updateQuantity", info |-> id, again |-> FALSE, from |-> "none",
                  rejected |-> "none"]
    /\ UNCHANGED <<discount, appState, mgrVars, connVars, restVars, appVars, callerVars, printVars,
                   moreVars>>

updateItemPrice(id, newPrice) ==
    /\ InCart(id)
    /\ cart' = [i \in 1..Len(cart) |->
                   IF cart[i].id = id
                   THEN [cart[i] EXCEPT !.price = IF newPrice > 0 THEN newPrice ELSE 0]
                   ELSE cart[i]]
    /\ UNCHANGED <<discount, appState, otherVars>>

\* onChange of the discount field: setDiscount(e.target.value)
setDiscount(text) ==
    /\ discount' = NumberInputValue(text)
    /\ UNCHANGED <<cart, appState, otherVars>>

handleFinish ==
    /\ cart' = <<>>
    /\ discount' = <<>>
    /\ appState' = "SCANNING"
    /\ UNCHANGED otherVars

\* setAppState(s) of the bottom navigation, which PREVIEW hides, and of the
\* Back button of the preview. renderContent renders <Camera> only in
\* SCANNING: leaving it unmounts the component, whose useState(0) cooldown a
\* later mount starts again at 0 (a capture still awaiting keeps its setters
\* of the unmounted component, so a specification with captures takes this
\* step between scans).
setAppState(s) ==
    /\ IF appState = "PREVIEW" THEN s = "LIST" ELSE s \in {"SCANNING", "LIST"}
    /\ appState' = s
    /\ cooldown' = IF appState = "SCANNING" /\ s # "SCANNING" THEN 0 ELSE cooldown
    /\ UNCHANGED <<cart, discount, mgrVars, connVars, restVars, appVars, lastOp, callerVars,
                   printVars, scanPc, otherTap, sheet, ocr, receiptVars>>

\* the 'Proceed to Checkout' button of the list,
\* disabled={totalAmount === 0 && discountVal === 0}, and its onClick, which
\* ends with setAppState(AppState.PREVIEW) whatever window.confirm returns
handleProceedToCheckout ==
    /\ appState = "LIST"
    /\ ~(totalAmount = Num(0) /\ discountVal = Num(0))
    /\ appState' = "PREVIEW"
    /\ UNCHANGED <<cart, discount, otherVars>>

\* the 'Proceed to Checkout' button of the earlier App, rendered when the
\* cart is not empty: onClick={() => setAppState(AppState.PREVIEW)}
proceedToCheckoutEarlier ==
    /\ appState = "LIST"
    /\ cart # <<>>
    /\ appState' = "PREVIEW"
    /\ UNCHANGED <<cart, discount, otherVars>>

(***************************************************************************)
(* Bluetooth connection manager (services/printerService.ts, BLE variant)  *)
(***************************************************************************)
\* most disconnect notifications the platform delivers in one run
MaxCallbackCalls == 2

Devices == {"d1", "d2"}
NoDevice == "null"
NoChar == [dev |-> "null", uuid |-> "null", write |-> FALSE, writeWithoutResponse |-> FALSE]

\* the characteristic UUIDs connect() tells apart
\* TARGET_SERVICE_UUID, TARGET_WRITE_UUID, ALT_WRITE_UUID, FALLBACK_WRITE_UUID
\* and the UUIDs of a service and a characteristic that are none of them
UUID ==
    [ TARGET_SERVICE |-> "49535343-fe7d", TARGET_WRITE |-> "49535343-1e4d",
      ALT_WRITE |-> "49535343-8841", FALLBACK_WRITE |-> "00002af1",
      OtherService |-> "0000ff00", OtherChar |-> "0000ff01" ]

Char(u, w, n) == [uuid |-> u, write |-> w, writeWithoutResponse |-> n]
Svc(u, cs) == [uuid |-> u, chars |-> cs]

\* service lists getPrimaryServices() answers with
Profiles ==
    { << Svc(UUID.OtherService, << Char(UUID.OtherChar, FALSE, FALSE) >>) >>,
      << Svc(UUID.OtherService, << Char(UUID.OtherChar, TRUE, FALSE) >>) >>,
      << Svc(UUID.OtherService, << Char(UUID.OtherChar, FALSE, TRUE) >>),
         Svc(UUID.TARGET_SERVICE, << Char(UUID.ALT_WRITE, TRUE, TRUE),
                                     Char(UUID.TARGET_WRITE, TRUE, TRUE) >>) >> }

\* what is there while nothing runs: no printReceipt (Job), no write attempt
\* (Chunk), nothing done by handlePrint (Run), no composing printReceipt
\* (Args), no locals of a second handlePrint (Tap)
No ==
    LET j0 == [items |-> <<>>, total |-> 0]
        c0 == [first |-> "none", retries |-> 0, retryMode |-> "none", retryOff |-> -1]
        r0 == [from |-> "none", restoreAttempts |-> 0, readyAfterRestore |-> FALSE,
                printAttempts |-> 0, writeIssued |-> FALSE, writeFailed |-> FALSE,
                outcome |-> "none", error |-> "none"]
    IN  [ Job |-> j0, Chunk |-> c0, Run |-> r0,
          Args |-> [items |-> <<>>, subTotal |-> 0, tax |-> 0, total |-> 0, mode |-> "none",
                    recipientName |-> <<>>, proviso |-> <<>>, paymentDeadline |-> <<>>,
                    discount |-> 0, logoUrl |-> "null"],
          Tap |-> [printPc |-> "idle", job |-> j0, curCmd |-> 0, curOff |-> 0,
                   canWriteNoResp |-> FALSE, pendingChar |-> NoChar, chunk |-> c0,
                   run |-> r0] ]

Op(name, info) == [name |-> name, info |-> info, again |-> FALSE, from |-> "none",
                   rejected |-> "none"]

\* isConnected()
isConnected ==
    /\ device # NoDevice
    /\ gattConnected[device]
    /\ characteristic # NoChar

\* the states of the connection state machine
Idle ==
    /\ device = NoDevice
    /\ characteristic = NoChar
    /\ \A d \in Devices : listeners[d] = 0
NoOpenSession == \A d \in Devices : ~gattConnected[d]
Ready == isConnected
Disconnected ==
    /\ device # NoDevice
    /\ ~gattConnected[device]
    /\ characteristic = NoChar

\* setOnDisconnect(callback), called by App on mount
setOnDisconnect ==
    /\ ~onDisconnectCallback
    /\ onDisconnectCallback' = TRUE
    /\ lastOp' = Op("setOnDisconnect", "")
    /\ UNCHANGED <<device, characteristic, gattConnected, listeners, callbackCalls,
                   printerStatus, connVars, restVars, cartVars, moreVars, callerVars, printVars>>

\* the callback App registers: setPrinterStatus(prev => ({...prev, isConnected: false, type: null}))
AppDisconnectCallback(status) == [status EXCEPT !.isConnected = FALSE, !.type = "null"]

\* handleDisconnect without its "this.characteristic = null"
handleDisconnectKeepsEndpoint(registered) ==
    [characteristic |-> characteristic, calls |-> IF registered THEN 1 ELSE 0]

\* handleDisconnect: what it leaves in characteristic and how often it calls the callback
handleDisconnect(registered) ==
    [characteristic |-> NoChar, calls |-> IF registered THEN 1 ELSE 0]

\* the platform loses the link to device d and fires 'gattserverdisconnected' at it
GattServerDisconnected(d) ==
    /\ gattConnected[d]
    /\ callbackCalls < MaxCallbackCalls
    /\ gattConnected' = [gattConnected EXCEPT ![d] = FALSE]
    /\ IF listeners[d] > 0
       THEN LET h == handleDisconnect(onDisconnectCallback) IN
            /\ characteristic' = h.characteristic
            /\ callbackCalls' = callbackCalls + listeners[d] * h.calls
            /\ printerStatus' = IF h.calls > 0 THEN AppDisconnectCallback(printerStatus)
                                ELSE printerStatus
            /\ lastOp' = Op("gattserverdisconnected", IF Ready /\ d = device THEN "Ready" ELSE "other")
       ELSE /\ UNCHANGED <<characteristic, callbackCalls, printerStatus>>
            /\ lastOp' = Op("gattserverdisconnected", "unheard")
    /\ UNCHANGED <<device, onDisconnectCallback, listeners, connVars, restVars, cartVars, moreVars,
                   callerVars, printVars>>

InitCart ==
    /\ cart = <<>>
    /\ discount = <<>>
    /\ appState = "SCANNING"

InitManagerWith(registered) ==
    /\ device = NoDevice
    /\ characteristic = NoChar
    /\ onDisconnectCallback = registered
    /\ gattConnected = [d \in Devices |-> FALSE]
    /\ listeners = [d \in Devices |-> 0]
    /\ callbackCalls = 0
    /\ printerStatus = [isConnected |-> FALSE, type |-> "null"]
    /\ connPc = "idle"
    /\ connDevice = NoDevice
    /\ connServices = [list |-> <<>>, next |-> 1, pass |-> 0]
    /\ targetChar = NoChar
    /\ fallbackChar = NoChar
    /\ restPc = "idle"
    /\ restDevice = NoDevice
    /\ restFrom = "none"
    /\ lastOp = Op("init", "")
    /\ connCaller = "none"
    /\ restCaller = "none"
    /\ isProcessing = FALSE
    /\ alert = "none"
    /\ printPc = "idle"
    /\ job = No.Job
    /\ curCmd = 0
    /\ curOff = 0
    /\ canWriteNoResp = FALSE
    /\ pendingChar = NoChar
    /\ written = <<>>
    /\ chunk = No.Chunk
    /\ run = No.Run
    /\ scanPc = "idle"
    /\ cooldown = 0
    /\ otherTap = No.Tap
    /\ sheet = [memoryCache |-> <<>>, stored |-> <<>>, timestamp |-> 0, now |-> 1000000, 
                caller |-> "none", build |-> "later", forceUpdate |-> FALSE, retries |-> 0,
                r0 |-> 0, attempts |-> 0, seen |-> <<>>, pc |-> "idle",
                result |-> [tag |-> "none", products |-> <<>>, error |-> "none"]]
    /\ buffer = <<>>
    /\ timer = FALSE
    /\ calls = <<>>
    /\ ocr = [maxAttempts |-> 0, authCheck |-> FALSE, attempts |-> 0, seen |-> <<>>,
              pc |-> "idle"]

\* no receipt is being composed
InitConnWith(registered) ==
    /\ InitManagerWith(registered)
    /\ receiptArgs = No.Args
    /\ adds = <<>>

(***************************************************************************)
(* connect()                                                               *)
(***************************************************************************)
\* the inner loop of the scan over one service's characteristics; st is
\* [target, fallback], the loop stops at the primary target
RECURSIVE ScanChars(_, _, _)
ScanChars(chars, d, st) ==
    IF chars = <<>> THEN st
    ELSE LET c == Head(chars)
             bound == [dev |-> d, uuid |-> c.uuid, write |-> c.write,
                       writeWithoutResponse |-> c.writeWithoutResponse]
             isWritable == c.write \/ c.writeWithoutResponse
         IN  IF ~isWritable THEN ScanChars(Tail(chars), d, st)
             ELSE IF c.uuid = UUID.TARGET_WRITE
                  THEN [st EXCEPT !.target = bound]
             ELSE LET t1 == IF c.uuid = UUID.ALT_WRITE THEN bound ELSE st.target
                      t2 == IF c.uuid = UUID.FALLBACK_WRITE /\ t1 = NoChar THEN bound ELSE t1
                      f  == IF st.fallback = NoChar THEN bound ELSE st.fallback
                  IN  ScanChars(Tail(chars), d, [target |-> t2, fallback |-> f])

\* handleConnectBluetooth after its await: setPrinterStatus on success,
\* handleConnError otherwise (no alert when the message says "cancelled");
\* handleConnectPrinter of the earlier App after its await: setPrinterStatus
\* (which has no type) on success, its alert in the catch otherwise
AppAfterConnect(result) ==
    IF connCaller = "App"
    THEN IF result = "ok"
         THEN /\ printerStatus' = [isConnected |-> TRUE, type |-> "BLUETOOTH"]
              /\ UNCHANGED alert
         ELSE /\ alert' = IF result = "cancelled" THEN alert ELSE "connection error"
              /\ UNCHANGED printerStatus
    ELSE IF connCaller = "AppEarlier"
    THEN IF result = "ok"
         THEN /\ printerStatus' = [isConnected |-> TRUE, type |-> "null"]
              /\ UNCHANGED alert
         ELSE /\ alert' = "Failed to connect to printer"
              /\ UNCHANGED printerStatus
    ELSE UNCHANGED <<printerStatus, alert>>

\* connect() settles (returns the device or rethrows) and its caller goes on;
\* rejected: the call that failed on this step, if any
ConnectSettles(result, rejected) ==
    /\ connPc' = "idle"
    /\ lastOp' = [Op("connect", result) EXCEPT !.rejected = rejected]
    /\ connDevice' = NoDevice
    /\ connServices' = [list |-> <<>>, next |-> 1, pass |-> 0]
    /\ AppAfterConnect(result)
    /\ UNCHANGED <<callbackCalls, callerVars, isProcessing, printPc, job, curCmd, curOff,
                 canWriteNoResp, pendingChar, written, chunk, run, restVars, cartVars,
                 moreVars>>

\* a step inside connect() that does not settle it
ConnectGoesOn ==
    UNCHANGED <<appVars, callerVars, printVars, restVars, cartVars, moreVars>>

\* connect() is called: requestDevice() shows the picker
ConnectEntry(caller) ==
    /\ connPc = "idle"
    /\ connPc' = "requestDevice"
    /\ connCaller' = caller
    /\ lastOp' = Op("connect", "called")
    /\ UNCHANGED <<mgrVars, appVars, connDevice, connServices, targetChar, fallbackChar,
                   restVars, cartVars, moreVars, restCaller>>

ConnectCall ==
    /\ ConnectEntry("caller")
    /\ UNCHANGED printVars

\* the user picks device d: the listener moves to d and gatt.connect() starts
ConnectDevicePicked(d) ==
    /\ connPc = "requestDevice"
    /\ listeners' = [ (IF device # NoDevice THEN [listeners EXCEPT ![device] = 0]
                       ELSE listeners) EXCEPT ![d] = 1 ]
    /\ device' = d
    /\ connDevice' = d
    /\ connPc' = "gattConnect"
    /\ lastOp' = Op("connect", "picked")
    /\ ConnectGoesOn
    /\ UNCHANGED <<characteristic, onDisconnectCallback, gattConnected,
                   connServices, targetChar, fallbackChar>>

\* the user closes the picker: requestDevice() rejects, connect() rethrows
ConnectCancelled ==
    /\ connPc = "requestDevice"
    /\ ConnectSettles("cancelled", "requestDevice")
    /\ UNCHANGED <<mgrVars, targetChar, fallbackChar>>

\* device.gatt.connect() settles
ConnectGattSettled(ok) ==
    /\ connPc = "gattConnect"
    /\ IF ok
       THEN /\ gattConnected' = [gattConnected EXCEPT ![connDevice] = TRUE]
            /\ connPc' = "settle"
            /\ lastOp' = Op("connect", "gatt connected")
            /\ ConnectGoesOn
            /\ UNCHANGED <<connDevice, connServices>>
       ELSE /\ ConnectSettles("GATT Connect failed", "gatt.connect")
            /\ UNCHANGED gattConnected
    /\ UNCHANGED <<device, characteristic, onDisconnectCallback, listeners,
                   targetChar, fallbackChar>>

\* the 7 second settle delay elapses and getPrimaryServices() is issued
ConnectSettled ==
    /\ connPc = "settle"
    /\ connPc' = "getPrimaryServices"
    /\ lastOp' = Op("connect", "settled")
    /\ ConnectGoesOn
    /\ UNCHANGED <<mgrVars, connDevice, connServices, targetChar, fallbackChar>>

\* getPrimaryServices() rejects: connect() rethrows
ConnectServicesFailed ==
    /\ connPc = "getPrimaryServices"
    /\ ConnectSettles("getPrimaryServices failed", "getPrimaryServices")
    /\ UNCHANGED <<mgrVars, targetChar, fallbackChar>>

\* getPrimaryServices() resolves with a service list
ConnectServicesFound(profile) ==
    /\ connPc = "getPrimaryServices"
    /\ gattConnected[connDevice]
    /\ connServices' = [list |-> profile, next |-> 1, pass |-> connServices.pass + 1]
    /\ targetChar' = NoChar
    /\ fallbackChar' = NoChar
    /\ connPc' = "scan"
    /\ lastOp' = Op("connect", "services")
    /\ ConnectGoesOn
    /\ UNCHANGED <<mgrVars, connDevice>>

\* the final selection of connect(): the endpoint it binds, NoChar when it throws
finalSelection(target, fallback) ==
    IF target # NoChar THEN target
    ELSE IF fallback # NoChar THEN fallback
    ELSE NoChar

\* getCharacteristics() of the next service settles; after the last service
\* (or the break) the final selection binds the endpoint or throws
ConnectScanService(ok) ==
    /\ connPc = "scan"
    /\ ok => gattConnected[connDevice]
    /\ LET service == connServices.list[connServices.next]
           isPriorityService == service.uuid = UUID.TARGET_SERVICE
           st == IF ok
                 THEN ScanChars(service.chars, connDevice,
                                [target |-> targetChar, fallback |-> fallbackChar])
                 ELSE [target |-> targetChar, fallback |-> fallbackChar]
           done == (st.target # NoChar /\ isPriorityService) \/ connServices.next = Len(connServices.list)
           rejected == IF ok THEN "none" ELSE "getCharacteristics"
           sel == finalSelection(st.target, st.fallback)
       IN  IF ~done
           THEN /\ targetChar' = st.target
                /\ fallbackChar' = st.fallback
                /\ connServices' = [connServices EXCEPT !.next = @ + 1]
                /\ lastOp' = [Op("connect", "scanned") EXCEPT !.rejected = rejected]
                /\ ConnectGoesOn
                /\ UNCHANGED <<characteristic, connPc, connDevice>>
           ELSE /\ targetChar' = NoChar
                /\ fallbackChar' = NoChar
                /\ IF sel # NoChar
                   THEN /\ characteristic' = sel
                        /\ connPc' = "wakeup"
                        /\ connServices' = [list |-> <<>>, next |-> 1, pass |-> 0]
                        /\ lastOp' = [Op("connect", "bound") EXCEPT !.rejected = rejected]
                        /\ ConnectGoesOn
                        /\ UNCHANGED connDevice
                   ELSE /\ ConnectSettles("No writable ports found. See logs.", rejected)
                        /\ UNCHANGED characteristic
    /\ UNCHANGED <<device, onDisconnectCallback, gattConnected, listeners>>

\* the wake-up write settles (a failure is only logged) and connect() returns the device
ConnectWakeupSettled(ok) ==
    /\ connPc = "wakeup"
    /\ ok => gattConnected[connDevice]
    /\ ConnectSettles("ok", IF ok THEN "none" ELSE "wake-up write")
    /\ UNCHANGED <<mgrVars, targetChar, fallbackChar>>

(***************************************************************************)
(* restoreConnection(), disconnect()                                       *)
(***************************************************************************)
\* what restoreConnection() does before its await: the value it returns at
\* once, or "await" when it goes on to device.gatt.connect()
restoreConnectionEntry ==
    IF device = NoDevice THEN "false"
    ELSE IF gattConnected[device] /\ characteristic # NoChar THEN "true"
    ELSE "await"

\* the state restoreConnection() is called in
RestoreFrom ==
    IF Disconnected /\ connPc = "idle"
       /\ lastOp.name = "gattserverdisconnected" /\ lastOp.info = "Ready"
    THEN "Disconnected"
    ELSE IF Ready THEN "Ready" ELSE "other"

RestoreCall ==
    /\ restPc = "idle"
    /\ restCaller' = "caller"
    /\ LET r == restoreConnectionEntry IN
       IF r = "await"
       THEN /\ restPc' = "gattConnect"
            /\ restDevice' = device
            /\ restFrom' = RestoreFrom
            /\ lastOp' = Op("restore", "called")
       ELSE /\ lastOp' = [Op("restore", r) EXCEPT !.from = RestoreFrom]
            /\ UNCHANGED <<restPc, restDevice, restFrom>>
    /\ UNCHANGED <<mgrVars, appVars, connVars, cartVars, moreVars, connCaller, printVars>>

\* what the settling gatt.connect() of restoreConnection() leaves: the value
\* returned (true on success, false when it throws) and the sessions
restoreConnectionSettle(ok) ==
    [result |-> IF ok THEN "true" ELSE "false",
     gattConnected |-> IF ok THEN [gattConnected EXCEPT ![restDevice] = TRUE]
                       ELSE gattConnected]

RestoreGattSettled(ok) ==
    /\ restPc = "gattConnect"
    /\ restCaller = "caller"
    /\ restPc' = "idle"
    /\ LET r == restoreConnectionSettle(ok) IN
       /\ gattConnected' = r.gattConnected
       /\ lastOp' = [Op("restore", r.result) EXCEPT !.from = restFrom]
    /\ restDevice' = NoDevice
    /\ restFrom' = "none"
    /\ UNCHANGED <<device, characteristic, onDisconnectCallback, listeners, appVars,
                   connVars, cartVars, moreVars, callerVars, printVars>>

\* disconnect() without its "if (this.device)" guard: removeEventListener is
\* called on null and throws before anything is assigned
disconnectEffectUnguarded ==
    IF device = NoDevice
    THEN [device |-> device, characteristic |-> characteristic, listeners |-> listeners,
          gattConnected |-> gattConnected, threw |-> TRUE]
    ELSE [device |-> NoDevice,
          characteristic |-> NoChar,
          listeners |-> [listeners EXCEPT ![device] = 0],
          gattConnected |-> [gattConnected EXCEPT ![device] = FALSE],
          threw |-> FALSE]

\* disconnect(): the manager fields it leaves and whether it threw
disconnectEffect ==
    [device |-> NoDevice,
     characteristic |-> NoChar,
     listeners |-> IF device # NoDevice THEN [listeners EXCEPT ![device] = 0] ELSE listeners,
     gattConnected |-> IF device # NoDevice /\ gattConnected[device]
                       THEN [gattConnected EXCEPT ![device] = FALSE]
                       ELSE gattConnected,
     threw |-> FALSE]

\* disconnect() without its "this.characteristic = null"
DisconnectStepKeepsEndpoint ==
    LET e == disconnectEffect IN
    /\ device' = e.device
    /\ characteristic' = characteristic
    /\ listeners' = e.listeners
    /\ gattConnected' = e.gattConnected
    /\ lastOp' = [name |-> "disconnect",
                  info |-> IF device = NoDevice THEN "no device"
                           ELSE IF gattConnected[device] THEN "session closed"
                           ELSE "no session",
                  again |-> lastOp.name = "disconnect",
                  from |-> "none",
                  rejected |-> "none"]
    /\ UNCHANGED <<onDisconnectCallback, callbackCalls, connVars, restVars, cartVars, moreVars, callerVars>>

\* printerService.disconnect() as one step of whoever calls it
DisconnectStep ==
    LET e == disconnectEffect IN
    /\ device' = e.device
    /\ characteristic' = e.characteristic
    /\ listeners' = e.listeners
    /\ gattConnected' = e.gattConnected
    /\ lastOp' = [name |-> "disconnect",
                  info |-> IF e.threw THEN "threw"
                           ELSE IF device = NoDevice THEN "no device"
                           ELSE IF gattConnected[device] THEN "session closed"
                           ELSE "no session",
                  again |-> lastOp.name = "disconnect",
                  from |-> "none",
                  rejected |-> "none"]
    /\ UNCHANGED <<onDisconnectCallback, callbackCalls, connVars, restVars, cartVars, moreVars, callerVars>>

Disconnect ==
    /\ DisconnectStep
    /\ UNCHANGED <<printerStatus, printVars>>

(***************************************************************************)
(* printReceipt() and writeCommand() (transport writer)                    *)
(***************************************************************************)
CHUNK_SIZE == 20

ESC == 27
GS == 29
AT == 64
LF == 10
ALIGN_CENTER == <<ESC, 97, 1>>
ALIGN_LEFT == <<ESC, 97, 0>>
ALIGN_RIGHT == <<ESC, 97, 2>>
EMPHASIS_ON == <<ESC, 69, 1>>
EMPHASIS_OFF == <<ESC, 69, 0>>
SIZE_NORMAL == <<GS, 33, 0>>
SIZE_DOUBLE == <<GS, 33, 17>>

\* encode(text) of the fixed texts (UTF-8 of ASCII)
Text ==
    [ Receipt |-> <<82, 69, 67, 69, 73, 80, 84, 10>>,
      Store |-> <<80, 105, 120, 101, 108, 80, 79, 83, 32, 83, 116, 111, 114, 101, 10>>,
      Rule |-> [i \in 1..33 |-> IF i = 33 THEN 10 ELSE 45],
      Total |-> <<84, 79, 84, 65, 76, 58, 32, 89>>,
      Date |-> <<68, 97, 116, 101, 58, 32>>,
      Thanks |-> <<84, 104, 97, 110, 107, 32, 121, 111, 117, 33, 10>> ]

\* new Date().toLocaleString() at the time of printing
DateNow == <<50, 48, 50, 54, 47, 49, 49, 47, 49, 32, 56, 58, 51, 51, 58, 48, 48>>

\* item.name of a cart line
NameOf(id) == IF id = "A" THEN <<65>> ELSE <<66>>

\* n.toLocaleString(): decimal digits in groups of three
RECURSIVE toLocaleString(_)
toLocaleString(n) ==
    IF n < 10 THEN <<48 + n>>
    ELSE IF n < 1000 THEN Append(toLocaleString(n \div 10), 48 + (n % 10))
    ELSE LET r == n % 1000 IN
         toLocaleString(n \div 1000)
            \o <<44, 48 + (r \div 100), 48 + ((r \div 10) % 10), 48 + (r % 10)>>

Spaces(n) == [i \in 1..n |-> 32]

\* the items loop: the two writeCommand payloads of each cart line
RECURSIVE AllItemCommands(_)
AllItemCommands(items) ==
    IF items = <<>> THEN <<>>
    ELSE LET item == Head(items)
             line == toLocaleString(item.quantity) \o <<32, 120, 32, 89>>
                         \o toLocaleString(item.price)
             totalStr == <<89>> \o toLocaleString(item.price * item.quantity)
             spaces == 32 - (Len(line) + Len(totalStr))
             padding == IF spaces > 0 THEN Spaces(spaces) ELSE Spaces(1)
         IN  << NameOf(item.id) \o <<LF>>, line \o padding \o totalStr \o <<LF>> >>
                 \o AllItemCommands(Tail(items))

\* printReceipt(items, total): its writeCommand payloads in order
printReceiptCommands(items, total) ==
    << <<ESC, AT>>, ALIGN_CENTER, SIZE_DOUBLE, Text.Receipt, SIZE_NORMAL, Text.Store,
       Text.Rule, <<LF>>, ALIGN_LEFT >>
    \o AllItemCommands(items)
    \o << Text.Rule, EMPHASIS_ON, SIZE_DOUBLE, ALIGN_RIGHT,
          Text.Total \o toLocaleString(total) \o <<LF>>,
          EMPHASIS_OFF, SIZE_NORMAL, ALIGN_CENTER, <<LF>>,
          Text.Date \o DateNow \o <<LF>>, Text.Thanks, <<LF, LF, LF, LF>> >>

\* array.slice(i, i + CHUNK_SIZE + 1): a chunk one byte too long
ChunkAtOverlong(data, i) ==
    SubSeq(data, i + 1, IF i + CHUNK_SIZE + 1 < Len(data) THEN i + CHUNK_SIZE + 1 ELSE Len(data))

\* array.slice(i, i + CHUNK_SIZE)
ChunkAt(data, i) ==
    SubSeq(data, i + 1, IF i + CHUNK_SIZE < Len(data) THEN i + CHUNK_SIZE ELSE Len(data))

\* the write mode of the first attempt of a chunk
firstWriteMode(noResp) == IF noResp THEN "withoutResponse" ELSE "withResponse"

\* the write mode of the retry of a chunk
retryWriteMode == "withResponse"

\* a handlePrint whose catch swallows the error and reports the print as done
PrintThrowsReportsDone(status, r, msg) ==
    /\ printerStatus' = status
    /\ alert' = alert
    /\ isProcessing' = FALSE
    /\ printPc' = "idle"
    /\ run' = [r EXCEPT !.outcome = "done"]
    /\ job' = No.Job
    /\ curCmd' = 0
    /\ curOff' = 0
    /\ pendingChar' = NoChar
    /\ chunk' = No.Chunk
    /\ UNCHANGED canWriteNoResp

\* the catch and finally of handlePrint: printReceipt threw
PrintThrows(status, r, msg) ==
    /\ printerStatus' = [status EXCEPT !.isConnected = FALSE]
    /\ alert' = "print error"
    /\ isProcessing' = FALSE
    /\ printPc' = "idle"
    /\ run' = [r EXCEPT !.outcome = "error", !.error = msg]
    /\ job' = No.Job
    /\ curCmd' = 0
    /\ curOff' = 0
    /\ pendingChar' = NoChar
    /\ chunk' = No.Chunk
    /\ UNCHANGED canWriteNoResp

\* the first write attempt of the chunk at offset off: the write is issued on
\* this.characteristic; reading a null characteristic throws inside the try
IssueFirstAttempt(r, noResp) ==
    IF characteristic = NoChar
    THEN /\ printPc' = "retryDelay"
         /\ chunk' = [No.Chunk EXCEPT !.first = "threw"]
         /\ pendingChar' = NoChar
         /\ run' = [r EXCEPT !.writeFailed = TRUE]
    ELSE /\ printPc' = "write"
         /\ chunk' = [No.Chunk EXCEPT !.first = firstWriteMode(noResp)]
         /\ pendingChar' = characteristic
         /\ run' = [r EXCEPT !.writeIssued = TRUE]

\* the payloads of the running printReceipt and the array of the running writeCommand
\* (a job is printReceipt(items, total) or one writeCommand(data) on its own)
JobCommandsOf(j) ==
    IF "payloads" \in DOMAIN j THEN j.payloads
    ELSE printReceiptCommands(j.items, j.total)
JobCommands == JobCommandsOf(job)
curData == JobCommands[curCmd]

\* the k-th writeCommand of printReceipt(j.items, j.total) is entered
StartWriteCommand(status, r, j, k) ==
    IF characteristic = NoChar
    THEN /\ PrintThrows(status, r, "Printer not connected")
    ELSE /\ job' = j
         /\ curCmd' = k
         /\ curOff' = 0
         /\ canWriteNoResp' = characteristic.writeWithoutResponse
         /\ IF Len(JobCommandsOf(j)[k]) = 0
            THEN /\ printPc' = "return"
                 /\ chunk' = No.Chunk
                 /\ pendingChar' = NoChar
                 /\ run' = r
            ELSE IssueFirstAttempt(r, characteristic.writeWithoutResponse)
         /\ printerStatus' = status
         /\ isProcessing' = TRUE
         /\ UNCHANGED alert

\* a printReceipt that waits while another printReceipt is in flight
StartPrintQueued(status, r, g) ==
    LET r1 == [r EXCEPT !.printAttempts = @ + 1] IN
    IF otherTap.printPc # "idle"
    THEN /\ printPc' = "queued"
         /\ printerStatus' = status
         /\ run' = r1
         /\ UNCHANGED <<alert, isProcessing, job, curCmd, curOff, canWriteNoResp,
                        pendingChar, chunk>>
    ELSE IF ~(device # NoDevice /\ g[device] /\ characteristic # NoChar)
    THEN PrintThrows(status, r1, "Printer disconnected")
    ELSE StartWriteCommand(status, r1, [items |-> cart, total |-> subTotal], 1)

\* handlePrint from setIsProcessing(true): printReceipt checks isConnected()
\* (with the sessions g) and starts writing
StartPrint(status, r, g) ==
    LET r1 == [r EXCEPT !.printAttempts = @ + 1] IN
    IF ~(device # NoDevice /\ g[device] /\ characteristic # NoChar)
    THEN PrintThrows(status, r1, "Printer disconnected")
    ELSE StartWriteCommand(status, r1, [items |-> cart, total |-> subTotal], 1)

\* handlePrint: the alert shown when the printer is not ready
NotConnected(r) ==
    /\ alert' = "not connected"
    /\ printerStatus' = [isConnected |-> FALSE, type |-> "null"]
    /\ run' = [r EXCEPT !.outcome = "not connected"]
    /\ printPc' = "idle"
    /\ UNCHANGED <<isProcessing, job, curCmd, curOff, canWriteNoResp, pendingChar, chunk>>

\* the print button: handlePrint up to its first await
HandlePrint ==
    /\ printPc = "idle"
    /\ restPc = "idle"
    /\ cart # <<>>
    /\ written' = IF otherTap.printPc = "idle" THEN <<>> ELSE written
    /\ LET isReady == printerStatus.isConnected /\ isConnected
           r0 == [No.Run EXCEPT !.from = RestoreFrom]
           r1 == [r0 EXCEPT !.restoreAttempts = 1]
           entry == restoreConnectionEntry
       IN  IF isReady
           THEN /\ StartPrint(printerStatus, r0, gattConnected)
                /\ lastOp' = Op("handlePrint", "ready")
                /\ UNCHANGED restVars /\ UNCHANGED restCaller
           ELSE IF printerStatus.type # "BLUETOOTH"
           THEN /\ NotConnected(r0)
                /\ lastOp' = Op("handlePrint", "not connected")
                /\ UNCHANGED restVars /\ UNCHANGED restCaller
           ELSE /\ restCaller' = "App"
                /\ IF entry = "await"
                   THEN /\ restPc' = "gattConnect"
                        /\ restDevice' = device
                        /\ restFrom' = RestoreFrom
                        /\ printPc' = "restore"
                        /\ run' = r1
                        /\ lastOp' = Op("handlePrint", "restoring")
                        /\ UNCHANGED <<printerStatus, isProcessing, alert, job, curCmd, curOff,
                                       canWriteNoResp, pendingChar, chunk>>
                   ELSE /\ UNCHANGED <<restPc, restDevice, restFrom>>
                        /\ IF entry = "true"
                           THEN /\ StartPrint([printerStatus EXCEPT !.isConnected = TRUE],
                                              [r1 EXCEPT !.readyAfterRestore = isConnected],
                                              gattConnected)
                                /\ lastOp' = Op("handlePrint", "restored")
                           ELSE /\ NotConnected(r1)
                                /\ lastOp' = Op("handlePrint", "not connected")
    /\ UNCHANGED <<mgrVars, callbackCalls, connVars, connCaller, cartVars, moreVars>>

\* the gatt.connect() of the restore awaited by handlePrint settles
HandlePrintRestoreSettled(ok) ==
    /\ printPc = "restore"
    /\ restPc = "gattConnect"
    /\ restCaller = "App"
    /\ restPc' = "idle"
    /\ LET r == restoreConnectionSettle(ok)
           readyNow == device # NoDevice /\ r.gattConnected[device] /\ characteristic # NoChar
       IN
       /\ gattConnected' = r.gattConnected
       /\ IF r.result = "true"
          THEN /\ StartPrint([printerStatus EXCEPT !.isConnected = TRUE],
                             [run EXCEPT !.readyAfterRestore = readyNow], r.gattConnected)
               /\ lastOp' = Op("handlePrint", "restored")
          ELSE /\ NotConnected(run)
               /\ lastOp' = Op("handlePrint", "not connected")
    /\ restDevice' = NoDevice
    /\ restFrom' = "none"
    /\ UNCHANGED <<device, characteristic, onDisconnectCallback, listeners, callbackCalls,
                   connVars, cartVars, moreVars, callerVars, written>>


\* the first write attempt of the current chunk settles
WriteSettled(ok) ==
    /\ printPc = "write"
    /\ ok => gattConnected[pendingChar.dev]
    /\ IF ok
       THEN /\ written' = Append(written, ChunkAt(curData, curOff))
            /\ printPc' = "pace"
            /\ UNCHANGED run
       ELSE /\ printPc' = "retryDelay"
            /\ run' = [run EXCEPT !.writeFailed = TRUE]
            /\ UNCHANGED written
    /\ pendingChar' = NoChar
    /\ UNCHANGED <<mgrVars, appVars, connVars, restVars, cartVars, moreVars, callerVars, lastOp,
                   isProcessing, alert, job, curCmd, curOff, canWriteNoResp, chunk>>

\* the 50 ms before the retry elapse: writeValue(chunk) is issued on
\* this.characteristic; reading a null characteristic throws out of writeCommand
RetryDelayElapsed ==
    /\ printPc = "retryDelay"
    /\ IF characteristic = NoChar
       THEN /\ PrintThrows(printerStatus, run, "TypeError")
       ELSE /\ printPc' = "retryWrite"
            /\ pendingChar' = characteristic
            /\ chunk' = [chunk EXCEPT !.retries = @ + 1, !.retryMode = retryWriteMode,
                                      !.retryOff = curOff]
            /\ run' = [run EXCEPT !.writeIssued = TRUE]
            /\ UNCHANGED <<printerStatus, isProcessing, alert, job, curCmd, curOff,
                           canWriteNoResp>>
    /\ UNCHANGED <<mgrVars, callbackCalls, connVars, restVars, cartVars, moreVars, callerVars, lastOp, written>>

\* the retry of the current chunk settles: a failure is rethrown
RetrySettled(ok) ==
    /\ printPc = "retryWrite"
    /\ ok => gattConnected[pendingChar.dev]
    /\ IF ok
       THEN /\ written' = Append(written, ChunkAt(curData, curOff))
            /\ printPc' = "pace"
            /\ pendingChar' = NoChar
            /\ UNCHANGED <<printerStatus, isProcessing, alert, job, curCmd, curOff,
                           canWriteNoResp, chunk, run>>
       ELSE /\ PrintThrows(printerStatus, run, "write failed")
            /\ UNCHANGED written
    /\ UNCHANGED <<mgrVars, callbackCalls, connVars, restVars, cartVars, moreVars, callerVars, lastOp>>

\* the 20 ms pacing delay elapses (or a writeCommand of an empty array returns): the next chunk, the next writeCommand, or
\* the end of printReceipt and the finally of handlePrint
PaceElapsed ==
    /\ printPc \in {"pace", "return"}
    /\ IF curOff + CHUNK_SIZE < Len(curData)
       THEN /\ curOff' = curOff + CHUNK_SIZE
            /\ IssueFirstAttempt(run, canWriteNoResp)
            /\ UNCHANGED <<printerStatus, isProcessing, alert, job, curCmd, canWriteNoResp>>
       ELSE IF curCmd < Len(JobCommands)
       THEN /\ StartWriteCommand(printerStatus, run, job, curCmd + 1)
       ELSE /\ printPc' = "idle"
            /\ isProcessing' = FALSE
            /\ run' = [run EXCEPT !.outcome = "done"]
            /\ job' = No.Job
            /\ curCmd' = 0
            /\ curOff' = 0
            /\ chunk' = No.Chunk
            /\ UNCHANGED <<printerStatus, alert, canWriteNoResp, pendingChar>>
    /\ UNCHANGED <<mgrVars, callbackCalls, connVars, restVars, cartVars, moreVars, callerVars, lastOp, written>>

(***************************************************************************)
(* The connect and disconnect controls of App.tsx                          *)
(***************************************************************************)
\* a tap on a connection control: the alert of the last handler has been
\* dismissed, and the record of a print that has ended is dropped
NextTap ==
    /\ alert' = "none"
    /\ run' = IF printPc = "idle" THEN No.Run ELSE run
    /\ written' = IF printPc = "idle" THEN <<>> ELSE written
    /\ UNCHANGED <<isProcessing, printPc, job, curCmd, curOff, canWriteNoResp,
                   pendingChar, chunk>>

\* the Bluetooth button, rendered while printerStatus.isConnected is false
handleConnectBluetooth ==
    /\ ~printerStatus.isConnected
    /\ ConnectEntry("App")
    /\ NextTap

\* the "Connect Printer" button of the earlier App, rendered while
\* printerStatus.isConnected is false
handleConnectPrinter ==
    /\ ~printerStatus.isConnected
    /\ ConnectEntry("AppEarlier")
    /\ NextTap

\* the "Connected to ..." banner, rendered while printerStatus.isConnected:
\* printerService.disconnect() and setPrinterStatus(isConnected false, type null)
DisconnectButton ==
    /\ printerStatus.isConnected
    /\ DisconnectStep
    /\ printerStatus' = [isConnected |-> FALSE, type |-> "null"]
    /\ NextTap

(***************************************************************************)
(* Specifications                                                          *)
(***************************************************************************)
vars == <<cartVars, otherVars>>

\* the service as constructed: no callback registered yet

Init == InitCart /\ InitConnWith(FALSE)

NextCart ==
    \/ \E p \in Catalog : handleProductFound(p)
    \/ \E p \in Catalog, delta \in {-1, 1} : updateQuantity(p.id, delta)
    \* values the inline price field hands to updateItemPrice
    \/ \E p \in Catalog, np \in {-500, 0, 500, 1000} : updateItemPrice(p.id, np)
    \/ \E t \in StringsUpTo(MaxDiscountLen) : setDiscount(t)
    \/ handleFinish

SpecCart == Init /\ [][NextCart]_vars

\* the way from the scan to the preview: a part number the sheet knows or does
\* not know is added, its price and the discount are edited in the list
NextCheckout ==
    \/ \E p \in {[id |-> "A", price |-> 1000], UnknownProduct} : handleProductFound(p)
    \/ \E id \in {"A", "N"}, np \in {0, 500} : updateItemPrice(id, np)
    \/ \E t \in StringsUpTo(MaxDiscountLen) : setDiscount(t)
    \/ \E s \in {"SCANNING", "LIST"} : setAppState(s)
    \/ handleProceedToCheckout
    \/ proceedToCheckoutEarlier
    \/ handleFinish

SpecCheckout == Init /\ [][NextCheckout]_vars

\* the connection manager driven by any caller and by the platform
Next ==
    \/ setOnDisconnect
    \/ ConnectCall
    \/ \E d \in Devices : ConnectDevicePicked(d)
    \/ ConnectCancelled
    \/ \E ok \in BOOLEAN : ConnectGattSettled(ok)
    \/ ConnectSettled
    \/ ConnectServicesFailed
    \/ \E p \in Profiles : ConnectServicesFound(p)
    \/ \E ok \in BOOLEAN : ConnectScanService(ok)
    \/ \E ok \in BOOLEAN : ConnectWakeupSettled(ok)
    \/ RestoreCall
    \/ \E ok \in BOOLEAN : RestoreGattSettled(ok)
    \/ Disconnect
    \/ \E d \in Devices : GattServerDisconnected(d)

Spec == Init /\ [][Next]_vars

\* the printers in reach of the shop's till
ShopPrinters == {"d1"}

\* App.tsx on top of the connection manager: the mount effect has registered
\* the disconnect callback and the cart holds one line
InitApp ==
    /\ cart = << [id |-> "A", price |-> 1000, quantity |-> 1] >>
    /\ discount = <<>>
    /\ appState = "PREVIEW"
    /\ InitConnWith(TRUE)

NextApp ==
    \/ handleConnectBluetooth
    \/ \E d \in ShopPrinters : ConnectDevicePicked(d)
    \/ ConnectCancelled
    \/ \E ok \in BOOLEAN : ConnectGattSettled(ok)
    \/ ConnectSettled
    \/ ConnectServicesFailed
    \/ \E p \in Profiles : ConnectServicesFound(p)
    \/ \E ok \in BOOLEAN : ConnectScanService(ok)
    \/ \E ok \in BOOLEAN : ConnectWakeupSettled(ok)
    \/ DisconnectButton
    \/ \E d \in Devices : GattServerDisconnected(d)
    \/ HandlePrint
    \/ \E ok \in BOOLEAN : HandlePrintRestoreSettled(ok)
    \/ \E ok \in BOOLEAN : WriteSettled(ok)
    \/ RetryDelayElapsed
    \/ \E ok \in BOOLEAN : RetrySettled(ok)
    \/ PaceElapsed

SpecApp == InitApp /\ [][NextApp]_vars

(***************************************************************************)
(* Camera.tsx: handleCapture and the candidate dialog                      *)
(***************************************************************************)
\* the ways the awaits of handleCapture end: the part number is read and the
\* sheet has it, has near matches or has nothing; nothing is read; or
\* extractPartNumber / searchProduct throw or the 20 s race is lost
ScanOutcomes ==
    {"exact", "noMatch", "candidates",
     "unreadable", "rateLimit", "apiKey", "GeminiTimeout", "SheetError", "error"}

\* setCart of handleProductFound, as Camera calls it through onProductFound
onProductFound(c, product) ==
    IF \E i \in 1..Len(c) : c[i].id = product.id
    THEN [i \in 1..Len(c) |->
             IF c[i].id = product.id THEN [c[i] EXCEPT !.quantity = @ + 1] ELSE c[i]]
    ELSE Append(c, [id |-> product.id, price |-> product.price, quantity |-> 1])

\* handleCapture that also takes the no-match branch when nothing was read
handleCaptureCartOnUnreadable(c, outcome, product) ==
    IF outcome = "exact" THEN onProductFound(c, product)
    ELSE IF outcome \in {"noMatch", "unreadable"} THEN onProductFound(c, UnknownProduct)
    ELSE c

\* the cart handleCapture leaves when its awaits end with outcome (product:
\* the exact match of the sheet)
handleCaptureCart(c, outcome, product) ==
    IF outcome = "exact" THEN onProductFound(c, product)
    ELSE IF outcome = "noMatch" THEN onProductFound(c, UnknownProduct)
    ELSE c

\* the capture button: handleCapture up to its first await
HandleCapture ==
    /\ scanPc = "idle"
    /\ ~isProcessing
    /\ cooldown = 0
    /\ isProcessing' = TRUE
    /\ scanPc' = "ocr"
    /\ UNCHANGED <<cartVars, mgrVars, connVars, restVars, appVars, callerVars, lastOp,
                   alert, printPc, job, curCmd, curOff, canWriteNoResp, pendingChar,
                   written, chunk, run, cooldown, otherTap, sheet, ocr, receiptVars>>

\* extractPartNumber and searchProduct settle (or throw, or the timeout wins)
CaptureSettled(outcome, product) ==
    /\ scanPc = "ocr"
    /\ LET c == handleCaptureCart(cart, outcome, product) IN
       /\ \A i \in 1..Len(c) : c[i].quantity <= MaxQty
       /\ cart' = c
    /\ scanPc' = IF outcome = "candidates" THEN "dialog"
                 ELSE IF outcome = "rateLimit" THEN "idle"
                 ELSE IF outcome \in {"exact", "noMatch"} THEN "success"
                 ELSE "error"
    /\ isProcessing' = IF outcome = "rateLimit" THEN FALSE ELSE isProcessing
    /\ cooldown' = IF outcome = "rateLimit" THEN 30 ELSE cooldown
    /\ UNCHANGED <<discount, appState, mgrVars, connVars, restVars, appVars, callerVars, lastOp,
                   alert, printPc, job, curCmd, curOff, canWriteNoResp, pendingChar,
                   written, chunk, run, otherTap, sheet, ocr, receiptVars>>

\* the setTimeout that ends the status message fires: setIsProcessing(false)
CaptureTimerFired ==
    /\ scanPc \in {"success", "error"}
    /\ scanPc' = "idle"
    /\ isProcessing' = FALSE
    /\ UNCHANGED <<cartVars, mgrVars, connVars, restVars, appVars, callerVars, lastOp,
                   alert, printPc, job, curCmd, curOff, canWriteNoResp, pendingChar,
                   written, chunk, run, cooldown, otherTap, sheet, ocr, receiptVars>>

\* the interval of the cooldown effect fires: setCooldown(prev => Math.max(0,
\* prev - 1)); the effect sets the interval only while cooldown > 0
CooldownTick ==
    /\ cooldown > 0
    /\ cooldown' = IF cooldown - 1 > 0 THEN cooldown - 1 ELSE 0
    /\ UNCHANGED <<cartVars, mgrVars, connVars, restVars, appVars, callerVars, lastOp,
                   printVars, scanPc, otherTap, sheet, ocr, receiptVars>>

\* the candidate dialog: handleSelectCandidate(product), handleManualAdd
\* (choice "manual") or handleCloseDialog (choice "close")
CandidateDialog(choice, product) ==
    /\ scanPc = "dialog"
    /\ LET c == IF choice = "select" THEN onProductFound(cart, product)
                ELSE IF choice = "manual" THEN onProductFound(cart, UnknownProduct)
                ELSE cart
       IN /\ \A i \in 1..Len(c) : c[i].quantity <= MaxQty
          /\ cart' = c
    /\ scanPc' = "idle"
    /\ isProcessing' = FALSE
    /\ UNCHANGED <<discount, appState, mgrVars, connVars, restVars, appVars, callerVars, lastOp,
                   alert, printPc, job, curCmd, curOff, canWriteNoResp, pendingChar,
                   written, chunk, run, cooldown, otherTap, sheet, ocr, receiptVars>>


\* writeCommand(data), entered by printReceipt after its isConnected() check
WriteCommand(data) ==
    /\ printPc = "idle"
    /\ restPc = "idle"
    /\ printerStatus.isConnected /\ isConnected
    /\ written' = <<>>
    /\ StartWriteCommand(printerStatus,
                         [No.Run EXCEPT !.from = "Ready", !.printAttempts = 1],
                         [payloads |-> <<data>>], 1)
    /\ lastOp' = Op("writeCommand", "called")
    /\ UNCHANGED <<mgrVars, callbackCalls, connVars, restVars, callerVars, cartVars, moreVars>>

\* the bytes of a sequence of chunks, in the order written
RECURSIVE Concat(_)
Concat(chunks) ==
    IF chunks = <<>> THEN <<>> ELSE Head(chunks) \o Concat(Tail(chunks))

\* the transport writer on a connected printer, given any payload
NextWriter ==
    \/ handleConnectBluetooth
    \/ \E d \in ShopPrinters : ConnectDevicePicked(d)
    \/ \E ok \in BOOLEAN : ConnectGattSettled(ok)
    \/ ConnectSettled
    \/ \E p \in Profiles : ConnectServicesFound(p)
    \/ \E ok \in BOOLEAN : ConnectScanService(ok)
    \/ \E ok \in BOOLEAN : ConnectWakeupSettled(ok)
    \* the arrays writeCommand is given on its own: n bytes, each its own position
    \/ \E data \in { [i \in 1..n |-> i] : n \in 0..MaxPayloadLen } : WriteCommand(data)
    \/ \E ok \in BOOLEAN : WriteSettled(ok)
    \/ RetryDelayElapsed
    \/ \E ok \in BOOLEAN : RetrySettled(ok)
    \/ PaceElapsed

SpecWriter == InitApp /\ [][NextWriter]_vars

\* the connection controls of both versions of App on the connection manager
NextControls ==
    \/ handleConnectBluetooth
    \/ handleConnectPrinter
    \/ \E d \in Devices : ConnectDevicePicked(d)
    \/ ConnectCancelled
    \/ \E ok \in BOOLEAN : ConnectGattSettled(ok)
    \/ ConnectSettled
    \/ ConnectServicesFailed
    \/ \E p \in Profiles : ConnectServicesFound(p)
    \/ \E ok \in BOOLEAN : ConnectScanService(ok)
    \/ \E ok \in BOOLEAN : ConnectWakeupSettled(ok)
    \/ DisconnectButton
    \/ \E d \in Devices : GattServerDisconnected(d)

SpecControls == InitApp /\ [][NextControls]_vars

\* Each tap of the print button is an invocation of handlePrint with locals of
\* its own. The locals of one invocation are in printPc .. run and those of a
\* second one in otherTap; the event loop resumes either, which exchanges them.
OtherTapResumes ==
    /\ printPc # "idle" \/ otherTap.printPc # "idle"
    /\ otherTap' = IF printPc = "idle" THEN No.Tap     \* it has returned: no locals are left
                   ELSE [printPc |-> printPc, job |-> job, curCmd |-> curCmd,
                         curOff |-> curOff, canWriteNoResp |-> canWriteNoResp,
                         pendingChar |-> pendingChar, chunk |-> chunk, run |-> run]
    /\ printPc' = otherTap.printPc
    /\ job' = otherTap.job
    /\ curCmd' = otherTap.curCmd
    /\ curOff' = otherTap.curOff
    /\ canWriteNoResp' = otherTap.canWriteNoResp
    /\ pendingChar' = otherTap.pendingChar
    /\ chunk' = otherTap.chunk
    /\ run' = otherTap.run
    /\ UNCHANGED <<cartVars, mgrVars, connVars, restVars, appVars, callerVars, lastOp,
                   isProcessing, alert, written, scanPc, cooldown, sheet, ocr, receiptVars>>

\* the till with the print button tapped at any time and the connect button
\* while nothing prints, on a link that fails after a few chunks
NextTaps ==
    \/ (printPc = "idle" /\ otherTap.printPc = "idle") /\ handleConnectBluetooth
    \/ \E d \in ShopPrinters : ConnectDevicePicked(d)
    \/ \E ok \in BOOLEAN : ConnectGattSettled(ok)
    \/ ConnectSettled
    \/ \E p \in Profiles : ConnectServicesFound(p)
    \/ \E ok \in BOOLEAN : ConnectScanService(ok)
    \/ \E ok \in BOOLEAN : ConnectWakeupSettled(ok)
    \/ HandlePrint
    \/ OtherTapResumes
    \/ \E ok \in BOOLEAN : (ok => Len(written) < MaxChunksAccepted) /\ WriteSettled(ok)
    \/ RetryDelayElapsed
    \/ \E ok \in BOOLEAN : (ok => Len(written) < MaxChunksAccepted) /\ RetrySettled(ok)
    \/ PaceElapsed

SpecTaps == InitApp /\ [][NextTaps]_vars

\* the product the shop's sheet knows for the part number scanned
ScannedProduct == [id |-> "A", price |-> 1000]

\* the till with scanning, connecting and printing, where the sheet knows or
\* nearly knows every part number read, on a link that fails every print after
\* a few chunks, within the seconds of one cooldown
NextFail ==
    \/ HandleCapture
    \/ \E o \in ScanOutcomes \ {"noMatch"} : CaptureSettled(o, ScannedProduct)
    \/ CaptureTimerFired
    \/ \E choice \in {"select", "close"} : CandidateDialog(choice, ScannedProduct)
    \/ handleConnectBluetooth
    \/ \E d \in ShopPrinters : ConnectDevicePicked(d)
    \/ ConnectCancelled
    \/ \E ok \in BOOLEAN : ConnectGattSettled(ok)
    \/ ConnectSettled
    \/ ConnectServicesFailed
    \/ \E p \in Profiles : ConnectServicesFound(p)
    \/ \E ok \in BOOLEAN : ConnectScanService(ok)
    \/ \E ok \in BOOLEAN : ConnectWakeupSettled(ok)
    \/ \E d \in ShopPrinters : GattServerDisconnected(d)
    \/ HandlePrint
    \/ \E ok \in BOOLEAN : HandlePrintRestoreSettled(ok)
    \/ \E ok \in BOOLEAN : (ok => Len(written) < MaxChunksAccepted) /\ WriteSettled(ok)
    \/ RetryDelayElapsed
    \/ \E ok \in BOOLEAN : (ok => Len(written) < MaxChunksAccepted) /\ RetrySettled(ok)
    \/ PaceElapsed

SpecFail == InitApp /\ [][NextFail]_vars

\* the camera screen and the bottom navigation: the capture button, on the
\* screen in SCANNING, scans of a label the sheet knows or nearly knows, the
\* seconds of the cooldown, the tabs switched between scans
NextCooldown ==
    \/ appState = "SCANNING" /\ HandleCapture
    \/ \E o \in ScanOutcomes \ {"noMatch"} : CaptureSettled(o, ScannedProduct)
    \/ CaptureTimerFired
    \/ \E choice \in {"select", "manual", "close"} : CandidateDialog(choice, ScannedProduct)
    \/ CooldownTick
    \/ \E s \in {"SCANNING", "LIST"} : scanPc = "idle" /\ setAppState(s)

\* setInterval fires every second while the effect keeps it set
SpecCooldown == InitApp /\ [][NextCooldown]_vars /\ WF_vars(CooldownTick)

\* the service lists of a peripheral whose services hold up to two of: a
\* writable characteristic of each known UUID and of another UUID, the primary
\* target without a write property, another UUID with writeWithoutResponse only
DiscoveryProfiles ==
    LET chars == { Char(u, TRUE, FALSE) :
                     u \in {UUID.TARGET_WRITE, UUID.ALT_WRITE, UUID.FALLBACK_WRITE,
                            UUID.OtherChar} }
                 \cup { Char(UUID.TARGET_WRITE, FALSE, FALSE),
                        Char(UUID.OtherChar, FALSE, TRUE) }
        charLists == { <<>> } \cup { <<c>> : c \in chars } \cup { <<c, e>> : c, e \in chars }
        services == { Svc(u, cs) : u \in {UUID.TARGET_SERVICE, UUID.OtherService},
                                   cs \in charLists }
    IN  { <<sv>> : sv \in services } \cup { <<sv, tv>> : sv, tv \in services }

\* connect() from the button to its return, on a link that holds and a
\* peripheral that answers every getCharacteristics()
NextDiscovery ==
    \/ handleConnectBluetooth
    \/ \E d \in ShopPrinters : ConnectDevicePicked(d)
    \/ ConnectGattSettled(TRUE)
    \/ ConnectSettled
    \/ \E p \in DiscoveryProfiles : ConnectServicesFound(p)
    \/ ConnectScanService(TRUE)
    \/ \E ok \in BOOLEAN : ConnectWakeupSettled(ok)

SpecDiscovery == InitApp /\ [][NextDiscovery]_vars

\* most chunks the printer takes from two receipts printed at once
MaxInterleaved == 4

\* the print button tapped twice on a printer that takes every write
NextPair ==
    \/ (printPc = "idle" /\ otherTap.printPc = "idle") /\ handleConnectBluetooth
    \/ \E d \in ShopPrinters : ConnectDevicePicked(d)
    \/ ConnectGattSettled(TRUE)
    \/ ConnectSettled
    \/ \E p \in Profiles : ConnectServicesFound(p)
    \/ ConnectScanService(TRUE)
    \/ ConnectWakeupSettled(TRUE)
    \/ HandlePrint
    \/ OtherTapResumes
    \/ Len(written) < MaxInterleaved /\ WriteSettled(TRUE)
    \/ PaceElapsed

SpecPair == InitApp /\ [][NextPair]_vars

(***************************************************************************)
(* printReceipt() of the mode-aware composer (part_005)                    *)
(***************************************************************************)
\* this.encode(text) of the fixed texts: their Shift_JIS bytes
Sjis ==
    [ TitleFormal |-> <<151, 204, 32, 142, 251, 32, 143, 216, 10>>,
      TitleInvoice |-> <<144, 191, 32, 139, 129, 32, 143, 145, 10>>,
      TitleEstimation |-> <<140, 228, 32, 140, 169, 32, 144, 207, 32, 143, 145, 10>>,
      TitleReceipt |-> <<151, 204, 142, 251, 143, 145, 10>>,
      BlankName |-> <<32, 32, 32, 32, 32, 32, 32, 32, 32, 32>>,
      Sama |-> <<32, 151, 108, 10>>,
      InvoiceLead |-> <<137, 186, 139, 76, 130, 204, 146, 202, 130, 232, 130, 178, 144,
                191, 139, 129, 144, 92, 130, 181, 143, 227, 130, 176, 130, 220, 130, 183,
                129, 66, 10>>,
      EstimationLead |-> <<137, 186, 139, 76, 130, 204, 146, 202, 130, 232, 140, 228, 140,
                169, 144, 207, 144, 92, 130, 181, 143, 227, 130, 176, 130, 220, 130, 183,
                129, 66, 10>>,
      Yen |-> <<137, 126>>,
      ProvisoHead |-> <<146, 65, 32, 32>>,
      ProvisoDefault |-> <<130, 168, 149, 105, 145, 227>>,
      ProvisoTail |-> <<130, 198, 130, 181, 130, 196, 10>>,
      Received |-> <<143, 227, 139, 76, 144, 179, 130, 201, 151, 204, 142, 251, 130, 162,
                130, 189, 130, 181, 130, 220, 130, 181, 130, 189, 10>>,
      DeadlineHead |-> <<130, 168, 142, 120, 149, 165, 138, 250, 140, 192, 58, 32>>,
      ValidHead |-> <<151, 76, 140, 248, 138, 250, 140, 192, 58, 32>>,
      DiscountHead |-> <<146, 108, 136, 248, 58, 32, 45, 32>>,
      SubTotalHead |-> <<143, 172, 140, 118, 58, 32>>,
      TaxHead |-> <<40, 147, 224, 143, 193, 148, 239, 144, 197, 49, 48, 37, 41, 58, 32>>,
      TotalHead |-> <<141, 135, 140, 118, 58, 32>>,
      BankHead |-> <<91, 130, 168, 144, 85, 141, 158, 144, 230, 93, 10>>,
      Bank1 |-> <<147, 86, 145, 144, 144, 77, 151, 112, 139, 224, 140, 201, 32, 144, 163,
                140, 203, 139, 180, 142, 120, 147, 88, 10>>,
      Bank2 |-> <<149, 129, 146, 202, 140, 251, 141, 192, 32, 48, 48, 56, 56, 52, 55, 55,
                10>>,
      Bank3 |-> <<131, 116, 131, 78, 131, 86, 131, 125, 32, 131, 74, 131, 89, 131, 113,
                131, 82, 10>>,
      StoreName |-> <<131, 112, 131, 105, 131, 137, 131, 147, 131, 104, 131, 136, 131, 86,
                131, 95, 10>>,
      Address |-> <<129, 167, 56, 54, 51, 45, 48, 48, 49, 53, 10, 140, 70, 150, 123, 140,
                167, 147, 86, 145, 144, 142, 115, 136, 174, 146, 172, 52, 51, 10>>,
      Tel |-> <<147, 100, 152, 98, 58, 32, 48, 57, 54, 57, 45, 50, 52, 45, 48, 50, 49, 56,
                10>>,
      Registration |-> <<147, 111, 152, 94, 148, 212, 141, 134, 58, 32, 84, 54, 56, 49, 48,
                54, 50, 52, 55, 55, 50, 54, 56, 54, 10>>,
      Seal |-> <<40, 136, 243, 41, 10>>,
      StampRule |-> <<45, 45, 45, 45, 45, 45, 45, 45, 45, 45, 10>>,
      Stamp |-> <<124, 32, 142, 251, 147, 252, 136, 243, 142, 134, 32, 124, 10>>,
      InvoiceClosing |-> <<130, 178, 144, 191, 139, 129, 143, 145, 130, 240, 145, 151, 149,
                116, 130, 162, 130, 189, 130, 181, 130, 220, 130, 183, 129, 66, 10>>,
      Thanks |-> <<150, 136, 147, 120, 130, 160, 130, 232, 130, 170, 130, 198, 130, 164,
                130, 178, 130, 180, 130, 162, 130, 220, 130, 183, 33, 10>> ]

\* the text rows printReceipt builds from its arguments, encoded:
\*   title      the title of the mode
\*   recipient  `${recipientName || "          "} 様\n`
\*   amount     `${total.toLocaleString()}円\n`
\*   proviso    `但  ${proviso || "お品代"}として\n`
\*   deadline   `お支払期限: ${paymentDeadline}\n`
\*   valid      `有効期限: ${d.toLocaleDateString()}\n`, d one month after printing
\*   discount, subTotal, tax, total: the rows of the totals block
Row(kind, a) ==
    LET yen(head, n) == head \o toLocaleString(n) \o Sjis.Yen \o <<LF>>
        DateNextMonth == <<50, 48, 50, 54, 47, 49, 50, 47, 49>>
    IN  CASE kind = "title" ->
               IF a.mode = "FORMAL" THEN Sjis.TitleFormal
               ELSE IF a.mode = "INVOICE" THEN Sjis.TitleInvoice
               ELSE IF a.mode = "ESTIMATION" THEN Sjis.TitleEstimation
               ELSE Sjis.TitleReceipt
          [] kind = "recipient" ->
               (IF a.recipientName # <<>> THEN a.recipientName ELSE Sjis.BlankName)
                   \o Sjis.Sama
          [] kind = "amount" -> yen(<<>>, a.total)
          [] kind = "proviso" ->
               Sjis.ProvisoHead
                   \o (IF a.proviso # <<>> THEN a.proviso ELSE Sjis.ProvisoDefault)
                   \o Sjis.ProvisoTail
          [] kind = "deadline" -> Sjis.DeadlineHead \o a.paymentDeadline \o <<LF>>
          [] kind = "valid" -> Sjis.ValidHead \o DateNextMonth \o <<LF>>
          [] kind = "discount" -> yen(Sjis.DiscountHead, a.discount)
          [] kind = "subTotal" -> yen(Sjis.SubTotalHead, a.subTotal)
          [] kind = "tax" -> yen(Sjis.TaxHead, a.tax)
          [] kind = "total" -> yen(Sjis.TotalHead, a.total)

\* the initialisation, the logo (when there is a URL and the image converts: a
\* failure is caught; convertImageToEscPos of an 8 x 1 white image gives
\* GS v 0, xL xH yL yH, data), the title and the date
HeaderAdds(a) ==
    LET FS == 28
        KANJI_MODE_ON == <<FS, 38>>
        JIS_CODE_SYSTEM == <<FS, 67, 1>>
        COUNTRY_JAPAN == <<ESC, 82, 8>>
        LogoRaster == <<GS, 118, 48, 0, 1, 0, 1, 0, 0>>
    IN  << <<ESC, AT>>, COUNTRY_JAPAN, KANJI_MODE_ON, JIS_CODE_SYSTEM, ALIGN_CENTER >>
        \o (IF a.logoUrl = "loads" THEN << ALIGN_CENTER, LogoRaster, <<LF>> >> ELSE <<>>)
        \o << SIZE_DOUBLE, Row("title", a), SIZE_NORMAL, <<LF>> >>
        \o << ALIGN_RIGHT, DateNow \o <<LF>>, <<LF>> >>

\* the block of FORMAL, INVOICE and ESTIMATION: recipient, amount, proviso,
\* payment deadline, validity
DetailAdds(a) ==
    IF a.mode \notin {"FORMAL", "INVOICE", "ESTIMATION"} THEN <<>>
    ELSE << ALIGN_LEFT, Row("recipient", a), <<LF>> >>
         \o (IF a.mode = "INVOICE" THEN << ALIGN_RIGHT, Sjis.InvoiceLead >>
             ELSE IF a.mode = "ESTIMATION" THEN << ALIGN_RIGHT, Sjis.EstimationLead >>
             ELSE <<>>)
         \o << ALIGN_CENTER, SIZE_DOUBLE, EMPHASIS_ON, Row("amount", a), EMPHASIS_OFF,
               SIZE_NORMAL, <<LF>> >>
         \o (IF a.mode = "FORMAL"
             THEN << ALIGN_LEFT, Row("proviso", a), Sjis.Received, <<LF>> >> ELSE <<>>)
         \o (IF a.mode = "INVOICE" /\ a.paymentDeadline # <<>>
             THEN << ALIGN_RIGHT, Row("deadline", a), <<LF>> >> ELSE <<>>)
         \o (IF a.mode = "ESTIMATION"
             THEN << ALIGN_RIGHT, Row("valid", a), <<LF>> >>
             ELSE <<>>)

\* the two rows of one cart line; the width of a character above 255 is 2,
\* which is the number of its Shift_JIS bytes
ItemRows(item) ==
    LET line == toLocaleString(item.quantity) \o <<32, 120, 32>>
                    \o toLocaleString(item.price) \o Sjis.Yen
        totalStr == toLocaleString(item.price * item.quantity) \o Sjis.Yen
        spaces == 32 - (Len(line) + Len(totalStr))
        padding == IF spaces > 0 THEN Spaces(spaces) ELSE Spaces(1)
    IN  << NameOf(item.id) \o <<LF>>, line \o padding \o totalStr \o <<LF>> >>

RECURSIVE AllItemRows(_)
AllItemRows(items) ==
    IF items = <<>> THEN <<>>
    ELSE ItemRows(Head(items)) \o AllItemRows(Tail(items))

ItemsAdds(a) ==
    << ALIGN_CENTER, Text.Rule, ALIGN_LEFT >> \o AllItemRows(a.items)
        \o << ALIGN_CENTER, Text.Rule >>

\* the totals block with the total left in double size
TotalsAddsKeepsDouble(a) ==
    << ALIGN_RIGHT >>
        \o (IF a.discount > 0 THEN << Row("discount", a) >> ELSE <<>>)
        \o << Row("subTotal", a), Row("tax", a) >>
        \o (IF a.mode = "RECEIPT"
            THEN << <<LF>>, EMPHASIS_ON, SIZE_DOUBLE, Row("total", a), EMPHASIS_OFF >>
            ELSE <<>>)
        \o << <<LF>> >>

\* the totals block: discount, subtotal, tax and, for RECEIPT, the total
TotalsAdds(a) ==
    << ALIGN_RIGHT >>
        \o (IF a.discount > 0 THEN << Row("discount", a) >> ELSE <<>>)
        \o << Row("subTotal", a), Row("tax", a) >>
        \o (IF a.mode = "RECEIPT"
            THEN << <<LF>>, EMPHASIS_ON, SIZE_DOUBLE, Row("total", a), EMPHASIS_OFF,
                    SIZE_NORMAL >>
            ELSE <<>>)
        \o << <<LF>> >>

\* the bank account of INVOICE and ESTIMATION, the store information, the seal
\* mark of the detail modes
FooterAdds(a) ==
    (IF a.mode \in {"INVOICE", "ESTIMATION"}
     THEN << ALIGN_LEFT, EMPHASIS_ON, Sjis.BankHead, EMPHASIS_OFF, Sjis.Bank1, Sjis.Bank2,
             Sjis.Bank3, <<LF>> >>
     ELSE <<>>)
        \o << ALIGN_CENTER, EMPHASIS_ON, Sjis.StoreName, EMPHASIS_OFF, Sjis.Address,
              Sjis.Tel, Sjis.Registration >>
        \o (IF a.mode \in {"FORMAL", "INVOICE", "ESTIMATION"} THEN << ALIGN_RIGHT, Sjis.Seal, ALIGN_CENTER >>
            ELSE <<>>)

\* the revenue-stamp box drawn only above 50000
StampAddsAbove(a) ==
    IF a.mode = "FORMAL" /\ a.total > 50000
    THEN << <<LF>>, ALIGN_RIGHT, Sjis.StampRule, Sjis.Stamp, Sjis.StampRule, ALIGN_CENTER >>
    ELSE <<>>

\* the revenue-stamp box
StampAdds(a) ==
    IF a.mode = "FORMAL" /\ a.total >= 50000
    THEN << <<LF>>, ALIGN_RIGHT, Sjis.StampRule, Sjis.Stamp, Sjis.StampRule, ALIGN_CENTER >>
    ELSE <<>>

\* the closing line of the mode; ESTIMATION has none
ClosingAdds(a) ==
    << <<LF>> >>
        \o (IF a.mode = "INVOICE" THEN << Sjis.InvoiceClosing >>
            ELSE IF a.mode = "ESTIMATION" THEN <<>>
            ELSE << Sjis.Thanks >>)

\* printReceipt with the bank, store and seal block added before the items
printReceiptAddsFooterFirst(a) ==
    HeaderAdds(a) \o DetailAdds(a) \o FooterAdds(a) \o ItemsAdds(a) \o TotalsAdds(a)
        \o StampAdds(a) \o ClosingAdds(a) \o << <<LF, LF, LF, LF>> >>

\* printReceipt(items, subTotal, tax, total, mode, recipientName, proviso,
\* paymentDeadline, discount, logoUrl): the arrays it gives to add(), in order,
\* the last one being the feed before the cut
printReceiptAdds(a) ==
    HeaderAdds(a) \o DetailAdds(a) \o ItemsAdds(a) \o TotalsAdds(a) \o FooterAdds(a)
        \o StampAdds(a) \o ClosingAdds(a) \o << <<LF, LF, LF, LF>> >>

\* Receipt.tsx: const needsStamp
needsStamp(a) == a.mode = "FORMAL" /\ a.total >= 50000

\* the arguments handlePrint passes: subTotal, tax and totalAmount of the cart
\* and the discount, the mode and the fields of the preview, LOGO_URL
ArgsOf(items, discountN, mode, recipientName, proviso, paymentDeadline, logoUrl) ==
    LET sub == itemsTotalOf(items)
        tx  == sub \div 10
        tot == IF sub + tx - discountN > 0 THEN sub + tx - discountN ELSE 0
    IN  [items |-> items, subTotal |-> sub, tax |-> tx, total |-> tot, mode |-> mode,
         recipientName |-> recipientName, proviso |-> proviso,
         paymentDeadline |-> paymentDeadline, discount |-> discountN, logoUrl |-> logoUrl]

\* the arguments at the preview, for carts with catalogue prices and with
\* prices set in the list so that the total comes to 49,999 and to 50,000
ReceiptInputs ==
    LET ReceiptCarts ==
            { << [id |-> "A", price |-> 1000, quantity |-> 1] >>,
              << [id |-> "A", price |-> 45454, quantity |-> 1] >>,
              << [id |-> "A", price |-> 45455, quantity |-> 1] >>,
              << [id |-> "A", price |-> 45455, quantity |-> 1],
                 [id |-> "B", price |-> 500, quantity |-> 2] >> }
    IN  { ArgsOf(items, discountN, mode, r, p, d, logoUrl) :
            items \in ReceiptCarts, discountN \in {0, 1, 300},
            mode \in {"RECEIPT", "FORMAL", "INVOICE", "ESTIMATION"},
            r \in {<<>>, <<84>>}, p \in {<<>>, <<80>>}, d \in {<<>>, <<49, 50, 47, 49>>},
            logoUrl \in {"null", "loads", "fails"} }

\* printReceipt up to its await of print(): cmds holds every array added
ComposeReceipt ==
    /\ adds = <<>>
    /\ adds' = printReceiptAdds(receiptArgs)
    /\ UNCHANGED <<cartVars, mgrVars, connVars, restVars, appVars, lastOp, callerVars,
                   printVars, scanPc, cooldown, ocr, otherTap, sheet, receiptArgs, buffer, timer, calls>>

InitReceipt ==
    /\ InitCart
    /\ InitManagerWith(TRUE)
    /\ receiptArgs \in ReceiptInputs
    /\ adds = <<>>

SpecReceipt == InitReceipt /\ [][ComposeReceipt]_vars

(***************************************************************************)
(* extractPartNumber() of geminiService.ts and of part_007                 *)
(***************************************************************************)
\* extractPartNumber(base64Image) with an API key configured: the first
\* generateContent is sent. build is the one of geminiService.ts (three
\* attempts) or the one of part_007 (two attempts, 400 / 403 / invalid api key
\* rethrown at once)
extractPartNumber(build) ==
    /\ ocr.pc \in {"idle", "returned", "thrown"}
    /\ ocr' = [maxAttempts |-> build.maxAttempts, authCheck |-> build.authCheck,
               attempts |-> 0, seen |-> <<>>, pc |-> "request"]
    /\ UNCHANGED <<cartVars, mgrVars, connVars, restVars, appVars, lastOp, callerVars,
                   printVars, scanPc, cooldown, otherTap, sheet, receiptVars>>

\* generateContent settles: with JSON text ("ok"), with no text or text that
\* does not parse, or with an error whose message holds the given words
GenerateContentSettled(outcome) ==
    /\ ocr.pc = "request"
    /\ ocr' = IF outcome = "ok"
              THEN [ocr EXCEPT !.seen = Append(@, outcome), !.pc = "returned"]
              ELSE [ocr EXCEPT !.seen = Append(@, outcome), !.attempts = @ + 1,
                               !.pc = IF ocr.authCheck
                                         /\ outcome \in {"400", "403", "invalid api key"}
                                      THEN "thrown"
                                      ELSE IF ocr.attempts + 1 >= ocr.maxAttempts
                                      THEN "thrown" ELSE "wait"]
    /\ UNCHANGED <<cartVars, mgrVars, connVars, restVars, appVars, lastOp, callerVars,
                   printVars, scanPc, cooldown, otherTap, sheet, receiptVars>>

\* the wait before the next attempt elapses: the loop sends generateContent again
WaitElapsed ==
    /\ ocr.pc = "wait"
    /\ ocr' = [ocr EXCEPT !.pc = "request"]
    /\ UNCHANGED <<cartVars, mgrVars, connVars, restVars, appVars, lastOp, callerVars,
                   printVars, scanPc, cooldown, otherTap, sheet, receiptVars>>

\* the OCR call of both builds against a service that answers in every way
NextOcr ==
    \/ \E build \in { [maxAttempts |-> 3, authCheck |-> FALSE],
                       [maxAttempts |-> 2, authCheck |-> TRUE] } : extractPartNumber(build)
    \/ \E outcome \in {"ok", "empty", "syntax", "400", "403", "invalid api key",
                         "429", "503", "fetch failed"} : GenerateContentSettled(outcome)
    \/ WaitElapsed

SpecOcr == InitApp /\ [][NextOcr]_vars

(***************************************************************************)
(* sheetService.ts: fetchWithRetry and fetchDatabase (both variants)       *)
(***************************************************************************)
\* most retries a caller of fetchWithRetry asks for
MaxRetries == 2

\* the latest Date.now() a call reads
MaxClock == 1600001

CACHE_TTL == 1000 * 60 * 5

fetchDatabaseIgnoresAge(build, forceUpdate, now) ==
    /\ sheet.pc \in {"idle", "returned", "thrown"}
    /\ now >= sheet.now /\ now <= MaxClock
    /\ LET lastFetch == sheet.timestamp
           called == [sheet EXCEPT !.caller = "fetchDatabase", !.build = build,
                                   !.forceUpdate = forceUpdate, !.now = now, !.seen = <<>>]
       IN  sheet' = IF ~forceUpdate /\ Len(sheet.memoryCache) > 0
                    THEN [called EXCEPT !.pc = "returned", !.attempts = 0, !.retries = 0, !.r0 = 0,
                                        !.result = [tag |-> "products",
                                                    products |-> sheet.memoryCache,
                                                    error |-> "none"]]
                    ELSE [called EXCEPT !.pc = "fetch", !.attempts = 1,
                                        !.retries = IF build = "later" THEN 1 ELSE 0,
                                        !.r0 = IF build = "later" THEN 1 ELSE 0,
                                        !.result = [tag |-> "none", products |-> <<>>,
                                                    error |-> "none"]]
    /\ UNCHANGED <<cartVars, mgrVars, connVars, restVars, appVars, callerVars, lastOp,
                   printVars, scanPc, cooldown, otherTap, ocr, receiptVars>>

\* fetchDatabase(forceUpdate), called while no call is in flight, Date.now()
\* giving now: the cache is returned, or the first fetch is sent, by
\* fetchWithRetry(url, {}, 1, 10000) in the later variant ("later") and by a
\* plain fetch in the earlier one ("earlier")
fetchDatabase(build, forceUpdate, now) ==
    /\ sheet.pc \in {"idle", "returned", "thrown"}
    /\ now >= sheet.now /\ now <= MaxClock
    /\ LET lastFetch == sheet.timestamp
           called == [sheet EXCEPT !.caller = "fetchDatabase", !.build = build,
                                   !.forceUpdate = forceUpdate, !.now = now, !.seen = <<>>]
       IN  sheet' = IF ~forceUpdate /\ Len(sheet.memoryCache) > 0 /\ now - lastFetch < CACHE_TTL
                    THEN [called EXCEPT !.pc = "returned", !.attempts = 0, !.retries = 0, !.r0 = 0,
                                        !.result = [tag |-> "products",
                                                    products |-> sheet.memoryCache,
                                                    error |-> "none"]]
                    ELSE [called EXCEPT !.pc = "fetch", !.attempts = 1,
                                        !.retries = IF build = "later" THEN 1 ELSE 0,
                                        !.r0 = IF build = "later" THEN 1 ELSE 0,
                                        !.result = [tag |-> "none", products |-> <<>>,
                                                    error |-> "none"]]
    /\ UNCHANGED <<cartVars, mgrVars, connVars, restVars, appVars, callerVars, lastOp,
                   printVars, scanPc, cooldown, otherTap, ocr, receiptVars>>

\* fetchWithRetry(url, options, retries, timeout) called by another caller
\* (fetchServiceItems): the first fetch is sent
fetchWithRetry(retries) ==
    /\ sheet.pc \in {"idle", "returned", "thrown"}
    /\ sheet' = [sheet EXCEPT !.caller = "other", !.build = "later", !.forceUpdate = FALSE,
                              !.seen = <<>>, !.pc = "fetch", !.attempts = 1,
                              !.retries = retries, !.r0 = retries,
                              !.result = [tag |-> "none", products |-> <<>>, error |-> "none"]]
    /\ UNCHANGED <<cartVars, mgrVars, connVars, restVars, appVars, callerVars, lastOp,
                   printVars, scanPc, cooldown, otherTap, ocr, receiptVars>>

fetchDatabaseCatchForgets(s, e) ==
    [s EXCEPT !.pc = "returned", !.memoryCache = <<>>,
              !.result = [tag |-> "products", products |-> <<>>, error |-> "none"]]

\* the catch block of fetchDatabase on the error e: the later variant returns
\* the cache it has and throws e when it has none, the earlier one returns
\* memoryCache whatever it holds
fetchDatabaseCatch(s, e) ==
    IF Len(s.memoryCache) > 0 \/ s.build = "earlier"
    THEN [s EXCEPT !.pc = "returned",
                   !.result = [tag |-> "products", products |-> s.memoryCache, error |-> "none"]]
    ELSE [s EXCEPT !.pc = "thrown",
                   !.result = [tag |-> "error", products |-> <<>>, error |-> e]]

\* the fetch in flight settles: with a response (status; body "csv" holding
\* products, or "html"), with the AbortError of the timeout or with the
\* TypeError of a network failure. fetchWithRetry returns the response, waits
\* before a retry or throws; fetchDatabase goes on with what it gets: the
\* update of the caches or its catch block.
FetchSettled(kind, status, body, products) ==
    /\ sheet.pc = "fetch"
    /\ kind = "response" <=> status # 0
    /\ sheet.build = "earlier" => kind # "AbortError"
    /\ LET ok == kind = "response" /\ status \in 200..299
           \* error.status.startsWith('4') of res.status.toString(), three digits
           isClientError == /\ kind = "response" /\ ~ok
                            /\ status \div 100 = 4 /\ status # 429 /\ status # 408
           isAbort == kind = "AbortError"
           seen == [sheet EXCEPT !.seen = Append(@, [kind |-> kind, status |-> status,
                                                     body |-> body])]
           retry == sheet.build = "later" /\ ~ok /\ sheet.retries > 0 /\ ~isClientError
           html == sheet.build = "later" /\ body = "html"
           e == IF ok THEN "403_HTML"
                ELSE IF sheet.build = "earlier" THEN "Error"
                ELSE IF isAbort THEN "TIMEOUT"
                ELSE IF kind = "response" THEN "HTTP_" \o ToString(status)
                ELSE kind
           \* parseCSV of a login page gives no row of three columns
           parsed == IF body = "html" THEN <<>> ELSE products
           throws == [tag |-> "error", products |-> <<>>, error |-> e]
       IN  sheet' =
             IF retry THEN [seen EXCEPT !.pc = "wait"]
             ELSE IF sheet.caller = "other"
             THEN IF ok THEN [seen EXCEPT !.pc = "returned",
                                          !.result = [tag |-> "res", products |-> <<>>,
                                                      error |-> "none"]]
                  ELSE [seen EXCEPT !.pc = "thrown", !.result = throws]
             ELSE IF ok /\ ~html
             THEN [seen EXCEPT !.pc = "returned",
                               !.result = [tag |-> "products", products |-> parsed,
                                           error |-> "none"],
                               !.memoryCache = parsed, !.stored = parsed,
                               !.timestamp = sheet.now]
             ELSE fetchDatabaseCatch(seen, e)
    /\ UNCHANGED <<cartVars, mgrVars, connVars, restVars, appVars, callerVars, lastOp,
                   printVars, scanPc, cooldown, otherTap, ocr, receiptVars>>

RetryWaitElapsedKeeps ==
    /\ sheet.pc = "wait"
    /\ sheet' = [sheet EXCEPT !.pc = "fetch", !.attempts = @ + 1]
    /\ UNCHANGED <<cartVars, mgrVars, connVars, restVars, appVars, callerVars, lastOp,
                   printVars, scanPc, cooldown, otherTap, ocr, receiptVars>>

\* the second of fetchWithRetry before a retry is over:
\* return fetchWithRetry(url, options, retries - 1, timeout)
RetryWaitElapsed ==
    /\ sheet.pc = "wait"
    /\ sheet' = [sheet EXCEPT !.pc = "fetch", !.retries = @ - 1, !.attempts = @ + 1]
    /\ UNCHANGED <<cartVars, mgrVars, connVars, restVars, appVars, callerVars, lastOp,
                   printVars, scanPc, cooldown, otherTap, ocr, receiptVars>>

\* the catalog service called again and again, the clock going on by nothing,
\* by just less than CACHE_TTL or by CACHE_TTL between two calls, the sheet
\* answering in every way
NextSheet ==
    \/ \E build \in {"earlier", "later"}, forceUpdate \in BOOLEAN,
          d \in {0, CACHE_TTL - 1, CACHE_TTL} :
          fetchDatabase(build, forceUpdate, sheet.now + d)
    \/ \E retries \in 0..MaxRetries : fetchWithRetry(retries)
    \/ \E status \in {200, 403, 404, 408, 429, 500}, body \in {"csv", "html"},
          products \in {<<>>, <<"A">>, <<"A", "B">>} :
          /\ status # 200 => body = "csv" /\ products = <<>>
          /\ FetchSettled("response", status, body, products)
    \/ \E kind \in {"AbortError", "TypeError"} : FetchSettled(kind, 0, "csv", <<>>)
    \/ RetryWaitElapsed

\* every fetch settles (the timeout aborts it at the latest) and every wait
\* before a retry ends
SpecSheet ==
    /\ InitApp /\ [][NextSheet]_vars
    /\ WF_vars(sheet.build = "later"
                  /\ \E kind \in {"AbortError", "TypeError"} : FetchSettled(kind, 0, "csv", <<>>))
    /\ WF_vars(RetryWaitElapsed)

(***************************************************************************)
(* The RawBT service (part_005): printReceipt, print, flush, connect       *)
(***************************************************************************)
\* most calls of printReceipt
MaxCalls == 3

\* connect() of the RawBT service, from the Bluetooth button
connectRawBT ==
    /\ buffer' = <<>>
    /\ printerStatus' = [isConnected |-> TRUE, type |-> "BLUETOOTH"]
    /\ UNCHANGED <<cartVars, mgrVars, connVars, restVars, callbackCalls, lastOp, callerVars,
                   printVars, scanPc, cooldown, ocr, otherTap, sheet, receiptArgs, adds, timer, calls>>

\* disconnect() of the RawBT service: the registered callback clears the status
disconnectRawBT ==
    /\ printerStatus.isConnected
    /\ printerStatus' = [isConnected |-> FALSE, type |-> "null"]
    /\ UNCHANGED <<cartVars, mgrVars, connVars, restVars, callbackCalls, lastOp, callerVars,
                   printVars, scanPc, cooldown, ocr, otherTap, sheet, receiptVars>>

\* a printReceipt that leaves out the initialisation while bytes are buffered
printReceiptContinues(a) ==
    /\ Len(calls) < MaxCalls
    /\ receiptArgs' = a
    /\ adds' = IF buffer # <<>> THEN Tail(printReceiptAdds(a)) ELSE printReceiptAdds(a)
    /\ buffer' = buffer \o Concat(adds')
    /\ timer' = TRUE
    /\ calls' = Append(calls, [args |-> a, cmds |-> adds'])
    /\ UNCHANGED <<cartVars, mgrVars, connVars, restVars, appVars, lastOp, callerVars,
                   printVars, scanPc, cooldown, ocr, otherTap, sheet>>

\* printReceipt(...) with print(new Uint8Array(cmds)): the bytes are pushed
\* onto this.buffer and the flush timer is set anew
printReceipt(a) ==
    /\ Len(calls) < MaxCalls
    /\ receiptArgs' = a
    /\ adds' = printReceiptAdds(a)
    /\ buffer' = buffer \o Concat(adds')
    /\ timer' = TRUE
    /\ calls' = Append(calls, [args |-> a, cmds |-> adds'])
    /\ UNCHANGED <<cartVars, mgrVars, connVars, restVars, appVars, lastOp, callerVars,
                   printVars, scanPc, cooldown, ocr, otherTap, sheet>>

\* the 1.5 s timer of print() fires: flush() returns on an empty buffer and
\* otherwise hands the buffer to the intent, which written records
flush ==
    /\ timer
    /\ timer' = FALSE
    /\ buffer' = <<>>
    /\ written' = IF buffer = <<>> THEN written ELSE Append(written, buffer)
    /\ UNCHANGED <<cartVars, mgrVars, connVars, restVars, appVars, lastOp, callerVars,
                   isProcessing, alert, printPc, job, curCmd, curOff, canWriteNoResp,
                   pendingChar, chunk, run, scanPc, cooldown, ocr, otherTap, sheet, receiptArgs, adds, calls>>

\* receipts printed again and again on the RawBT service
NextEncoder ==
    \/ connectRawBT
    \/ disconnectRawBT
    \/ \E a \in { ArgsOf(<< [id |-> "A", price |-> 1000, quantity |-> 1] >>, 300, mode,
                         <<>>, <<>>, <<>>, logoUrl) :
                     mode \in {"RECEIPT", "INVOICE"},
                     logoUrl \in {"null", "loads"} } : printReceipt(a)
    \/ flush

SpecEncoder == InitApp /\ [][NextEncoder]_vars

(***************************************************************************)
(* convertImageToEscPos() of the mode-aware composer (part_005)            *)
(***************************************************************************)
\* the tallest image loaded
MaxLogoHeight == 65536

\* the canvas of img.onload: the image scaled to at most MAX_WIDTH dots and
\* its width cut to a multiple of 8
canvasOf(img) ==
    LET MAX_WIDTH == 384
        scaled == img.width > MAX_WIDTH
        width == IF scaled THEN MAX_WIDTH ELSE img.width
    IN  [width |-> (width \div 8) * 8,
         height |-> IF scaled THEN (img.height * MAX_WIDTH) \div img.width
                    ELSE img.height]

\* rasterData of an image whose pixels are all dark or all white: the header
\* GS v 0 m xL xH yL yH, then one byte for each 8 dots of each row
convertImageToEscPos(img) ==
    LET width == canvasOf(img).width
        height == canvasOf(img).height
        xBytes == width \div 8
    IN  <<GS, 118, 48, 0, xBytes % 256, (xBytes \div 256) % 256,
          height % 256, (height \div 256) % 256>>
        \o [i \in 1..(height * xBytes) |-> IF img.dark THEN 255 ELSE 0]

\* img.onload: without a 2d context the promise is rejected; getImageData of
\* a canvas without width or height throws out of the handler, which leaves
\* the promise pending; otherwise it is resolved with rasterData
ConvertLogo ==
    LET img == receiptArgs.logoUrl IN
    /\ lastOp.name # "convertImageToEscPos"
    /\ lastOp' = Op("convertImageToEscPos",
                    IF ~img.context THEN "rejected"
                    ELSE IF canvasOf(img).width = 0 \/ canvasOf(img).height = 0
                    THEN "pending" ELSE "resolved")
    /\ adds' = IF lastOp'.info = "resolved" THEN << convertImageToEscPos(img) >> ELSE <<>>
    /\ UNCHANGED <<cartVars, mgrVars, connVars, restVars, appVars, callerVars,
                   printVars, scanPc, cooldown, ocr, otherTap, sheet, receiptArgs, buffer, timer, calls>>

\* the images the URL loads: widths around 8 and around MAX_WIDTH with the
\* scaling factor a power of two, rows around one and two header bytes
InitRaster ==
    /\ InitCart
    /\ InitManagerWith(TRUE)
    /\ adds = <<>>
    /\ \E w \in {1, 7, 8, 9, 15, 16, 383, 384, 385, 768},
          h \in {1, 2, 255, 256, 257, MaxLogoHeight - 1, MaxLogoHeight},
          dark, context \in BOOLEAN :
          /\ h > 257 => w \in {8, 15}
          /\ receiptArgs = [No.Args EXCEPT !.logoUrl = [width |-> w, height |-> h,
                                                       dark |-> dark, context |-> context]]

SpecRaster == InitRaster /\ [][ConvertLogo]_vars

(***************************************************************************)
(* Properties                                                              *)
(***************************************************************************)
\* C1: for every cart and discount, subtotal is the sum of price*quantity,
\* tax is floor(subtotal/10), total is max(0, subtotal + tax - discount) and
\* total is a number that is never negative.
C1_TotalsNeverNegative ==
    /\ tax * 10 <= subTotal /\ subTotal < (tax + 1) * 10
    /\ ~totalAmount.nan
    /\ ~discountVal.nan
    /\ totalAmount.v >= 0
    /\ totalAmount.v >= subTotal + tax - discountVal.v
    /\ totalAmount.v \in {0, subTotal + tax - discountVal.v}


\* C2: a disconnect event that fires while the manager is Ready (with a
\* callback registered) leaves it Disconnected: endpoint cleared, device handle
\* kept, and the callback has run exactly once more.
C2_DisconnectEventFromReady ==
    [][ (lastOp'.name = "gattserverdisconnected" /\ lastOp'.info = "Ready"
            /\ onDisconnectCallback)
        => /\ characteristic' = NoChar
           /\ device' = device /\ device' # NoDevice
           /\ Disconnected'
           /\ callbackCalls' = callbackCalls + 1 ]_vars

C2_Witness ==
    /\ lastOp.name = "gattserverdisconnected" /\ lastOp.info = "Ready"
    /\ onDisconnectCallback
    /\ callbackCalls = 1
    /\ Disconnected

\* C3: a restore started in Disconnected that reports success leaves the
\* manager Ready: session open, endpoint bound, isConnected() true, and a
\* write does not fail with 'not connected'.
C3_RestoreLeavesReady ==
    (lastOp.name = "restore" /\ lastOp.info = "true" /\ lastOp.from = "Disconnected")
        => (isConnected /\ characteristic # NoChar)

\* C4: when discovery ends without a writable endpoint, connect() reports the
\* error and the manager is back in Idle with no session left open.
C4_DiscoveryFailureReturnsToIdle ==
    (lastOp.name = "connect" /\ lastOp.info = "No writable ports found. See logs.")
        => (Idle /\ NoOpenSession)

C6_DisconnectIdempotent ==
    [][ (lastOp'.name = "disconnect" /\ lastOp'.again)
        => /\ lastOp.info # "threw" /\ lastOp'.info # "threw"
           /\ mgrVars' = mgrVars
           /\ Idle' ]_vars

C6_Witness ==
    /\ lastOp.name = "disconnect" /\ lastOp.again
    /\ Idle

\* C7: at most one device has a session opened by the manager.
C7_AtMostOneOpenSession ==
    Cardinality({ d \in Devices : gattConnected[d] }) <= 1

\* C8: a handlePrint that was triggered after a disconnect event had taken the
\* connection manager from Ready to Disconnected has attempted exactly one
\* restore; and when the manager was still not Ready after it, the run ended
\* with the 'not connected' alert and without any write issued to the printer.
C8_OneRestoreThenNotConnected ==
    (printPc = "idle" /\ run.outcome # "none" /\ run.from = "Disconnected")
        => /\ run.restoreAttempts = 1
           /\ ~run.readyAfterRestore
                => (run.outcome = "not connected" /\ alert = "not connected"
                    /\ ~run.writeIssued)

\* C9: a handlePrint whose first printReceipt threw partway through (a chunk
\* and its retry failed) has made exactly one more whole-document attempt,
\* after a restore attempt.
C9_OneWholeDocumentRetry ==
    (printPc = "idle" /\ run.outcome = "error" /\ run.error = "write failed")
        => (run.printAttempts = 2 /\ run.restoreAttempts >= 1)

\* C10: after a failed first attempt of a chunk the writer issues exactly one
\* retry of that chunk with writeValue; a failed retry ends the print with
\* the error and no further write; after a successful retry the chunk counts
\* as written and the writer paces on to the next chunk.
C10_ChunkRetriedOnceAcknowledged ==
    [][ /\ (printPc = "retryDelay" /\ printPc' # "retryDelay")
            => /\ printPc' = "retryWrite"
               /\ chunk'.retries = 1
               /\ chunk'.retryMode = "withResponse"
               /\ chunk'.retryOff = curOff
               /\ pendingChar' # NoChar
        /\ (printPc = "retryWrite" /\ printPc' # "retryWrite")
            => \/ /\ printPc' = "pace"
                  /\ written' = Append(written, ChunkAt(curData, curOff))
               \/ /\ printPc' = "idle"
                  /\ run'.outcome = "error"
                  /\ written' = written ]_vars

C12_FailureLeavesCart ==
    [][LET FailedConnectStep == connPc # "idle" /\ connPc' = "idle" /\ lastOp'.info # "ok"
           FailedPrintStep == run' # run /\ run'.outcome \in {"error", "not connected"}
           FailedScanStep == scanPc = "ocr" /\ scanPc' \in {"error", "idle"}
       IN  (FailedConnectStep \/ FailedPrintStep \/ FailedScanStep) => cart' = cart]_vars

\* a print failed after part of the receipt was written and a scan failed
\* after another had added to the cart
C12_Witness ==
    /\ run.outcome = "error" /\ run.writeFailed /\ Len(written) >= 1
    /\ scanPc = "error"
    /\ Len(cart) = 1 /\ cart[1].quantity = 2

\* C13: never are two invocations of handlePrint inside printReceipt at the
\* same time: a tap of the print button while a print runs starts no second
\* printReceipt.
C13_AtMostOnePrintInFlight ==
    ~(printPc \notin {"idle", "restore"} /\ otherTap.printPc \notin {"idle", "restore"})

\* C14: when the user closes the device picker, no alert is shown and the
\* device handle, the endpoint, the listeners, the sessions and the printer
\* status of the UI are exactly as they were before the connect action.
C14_CancelLeavesConnection ==
    [][(connPc = "requestDevice" /\ lastOp'.name = "connect" /\ lastOp'.info = "cancelled")
           => /\ alert' = "none"
              /\ mgrVars' = mgrVars
              /\ printerStatus' = printerStatus]_vars

\* C15: whenever a call made by connect() other than the device picker fails
\* (the GATT connect, the discovery of services or characteristics, the
\* wake-up write), connect() ends on that failure with an error thrown to its
\* caller.
C15_ConnectFailureIsThrown ==
    (lastOp.name = "connect" /\ lastOp.rejected \notin {"none", "requestDevice"})
        => (connPc = "idle" /\ lastOp.info # "ok")

\* C16: every item of the cart has a quantity of at least 1, and a step that
\* takes an item out of the cart (other than the finish that empties cart and
\* discount) takes out exactly one item, whose quantity was 1, and leaves the
\* others as they were, in their order.
C16_QuantityAtLeastOne ==
    [][ /\ \A i \in 1..Len(cart') : cart'[i].quantity >= 1
        /\ (Len(cart') < Len(cart) /\ (cart' # <<>> \/ (discount' = discount /\ discount # <<>>)))
              => \E k \in 1..Len(cart) :
                    /\ cart[k].quantity = 1
                    /\ cart' = SubSeq(cart, 1, k - 1) \o SubSeq(cart, k + 1, Len(cart)) ]_vars

\* the first of two lines was taken to zero: the second is left alone
C16_Witness ==
    /\ lastOp.name = "updateQuantity" /\ lastOp.info = "A"
    /\ cart = << [id |-> "B", price |-> 500, quantity |-> 2] >>

C18_SectionsInOrder ==
    adds # <<>> =>
        LET a == receiptArgs
            n == Len(adds)
            Pos(x) == IF \E i \in 1..n : adds[i] = x
                      THEN CHOOSE i \in 1..n : adds[i] = x /\ \A j \in 1..(i - 1) : adds[j] # x
                      ELSE 0
            title == Pos(Row("title", a))
            recipient == Pos(Row("recipient", a))
            firstItem == Pos(ItemRows(a.items[1])[1])
            lastItem == Pos(ItemRows(a.items[Len(a.items)])[2])
            closing == IF Pos(Sjis.Thanks) > 0 THEN Pos(Sjis.Thanks) ELSE Pos(Sjis.InvoiceClosing)
        IN  /\ SubSeq(Concat(adds), 1, 2) = <<ESC, AT>>
            /\ SubSeq(Concat(adds), Len(Concat(adds)) - 3, Len(Concat(adds))) = <<LF, LF, LF, LF>>
            /\ title > 0
            /\ (recipient > 0) <=> (a.mode \in {"FORMAL", "INVOICE", "ESTIMATION"})
            /\ recipient > 0 => title < recipient /\ recipient < firstItem
            /\ title < firstItem /\ firstItem < lastItem
            /\ lastItem < Pos(Row("subTotal", a)) /\ Pos(Row("subTotal", a)) < Pos(Row("tax", a))
            /\ Pos(Row("tax", a)) < Pos(Sjis.StoreName)
            /\ Pos(Sjis.StoreName) < Pos(Sjis.Registration)
            /\ Pos(Sjis.Registration) < closing
            /\ closing < n /\ adds[n] = <<LF, LF, LF, LF>>

\* C18 as amended: the same, where the closing line is there for RECEIPT,
\* FORMAL and INVOICE and an ESTIMATION has none, the feed following its store
\* information.
C18_SectionsInOrderAmended ==
    adds # <<>> =>
        LET a == receiptArgs
            n == Len(adds)
            Pos(x) == IF \E i \in 1..n : adds[i] = x
                      THEN CHOOSE i \in 1..n : adds[i] = x /\ \A j \in 1..(i - 1) : adds[j] # x
                      ELSE 0
            title == Pos(Row("title", a))
            recipient == Pos(Row("recipient", a))
            firstItem == Pos(ItemRows(a.items[1])[1])
            lastItem == Pos(ItemRows(a.items[Len(a.items)])[2])
            closing == IF Pos(Sjis.Thanks) > 0 THEN Pos(Sjis.Thanks) ELSE Pos(Sjis.InvoiceClosing)
        IN  /\ SubSeq(Concat(adds), 1, 2) = <<ESC, AT>>
            /\ SubSeq(Concat(adds), Len(Concat(adds)) - 3, Len(Concat(adds))) = <<LF, LF, LF, LF>>
            /\ title > 0
            /\ (recipient > 0) <=> (a.mode \in {"FORMAL", "INVOICE", "ESTIMATION"})
            /\ recipient > 0 => title < recipient /\ recipient < firstItem
            /\ title < firstItem /\ firstItem < lastItem
            /\ lastItem < Pos(Row("subTotal", a)) /\ Pos(Row("subTotal", a)) < Pos(Row("tax", a))
            /\ Pos(Row("tax", a)) < Pos(Sjis.StoreName)
            /\ Pos(Sjis.StoreName) < Pos(Sjis.Registration)
            /\ (closing > 0) <=> (a.mode # "ESTIMATION")
            /\ closing > 0 => Pos(Sjis.Registration) < closing /\ closing = n - 1
            /\ adds[n] = <<LF, LF, LF, LF>>

\* an ESTIMATION is composed: after its seal come one LF and the feed
C18_Witness ==
    /\ adds # <<>> /\ receiptArgs.mode = "ESTIMATION"
    /\ adds[Len(adds) - 3] = Sjis.Seal
    /\ adds[Len(adds) - 1] = <<LF>>
    /\ adds[Len(adds)] = <<LF, LF, LF, LF>>

\* C19: the document of a mode holds the recipient row (FORMAL, INVOICE,
\* ESTIMATION), the proviso row (FORMAL) and the payment-deadline row (INVOICE)
\* whether or not the field is filled in, and as many rows as the document
\* composed from the same arguments with the three fields left empty.
C19_OptionalRowsAlwaysEmitted ==
    adds # <<>> =>
        LET a == receiptArgs
            unfilled == [a EXCEPT !.recipientName = <<>>, !.proviso = <<>>,
                                  !.paymentDeadline = <<>>]
            Has(x) == \E i \in 1..Len(adds) : adds[i] = x
        IN  /\ a.mode \in {"FORMAL", "INVOICE", "ESTIMATION"}
                => Has((IF a.recipientName = <<>> THEN Sjis.BlankName ELSE a.recipientName)
                           \o Sjis.Sama)
            /\ a.mode = "FORMAL" => Has(Row("proviso", a))
            /\ a.mode = "INVOICE" => Has(Sjis.DeadlineHead \o a.paymentDeadline \o <<LF>>)
            /\ Len(adds) = Len(printReceiptAdds(unfilled))

\* C20: the document holds a discount row exactly when the discount is above
\* zero, and the row then comes after the subtotal row and the tax row and
\* before the row of the final total.
C20_DiscountRowBetweenTaxAndTotal ==
    adds # <<>> =>
        LET a == receiptArgs
            n == Len(adds)
            h == Len(Sjis.DiscountHead)
            IsDiscountRow(x) == Len(x) >= h /\ SubSeq(x, 1, h) = Sjis.DiscountHead
            Pos(x) == IF \E i \in 1..n : adds[i] = x
                      THEN CHOOSE i \in 1..n : adds[i] = x /\ \A j \in 1..(i - 1) : adds[j] # x
                      ELSE 0
            rows == { i \in 1..n : IsDiscountRow(adds[i]) }
        IN  /\ (rows # {}) <=> (a.discount > 0)
            /\ \A i \in rows :
                  /\ adds[i] = Row("discount", a)
                  /\ Pos(Row("subTotal", a)) < i /\ Pos(Row("tax", a)) < i
                  /\ Pos(Row("total", a)) > 0 => i < Pos(Row("total", a))

\* C21: every step that enters PREVIEW is taken with a total above zero or
\* with a non-zero discount entered; and a cart of one item of quantity 1 and
\* price 0 with no discount has subtotal, tax and total 0 (so that no step
\* takes it to PREVIEW).
C21_CheckoutNeedsAmountOrDiscount ==
    [][ /\ (appState # "PREVIEW" /\ appState' = "PREVIEW")
            => \/ ~totalAmount.nan /\ totalAmount.v > 0
               \/ \E i \in 1..Len(discount) : discount[i] \in Digits \ {"0"}
        /\ (Len(cart) = 1 /\ cart[1].quantity = 1 /\ cart[1].price = 0 /\ discount = <<>>)
            => (subTotal = 0 /\ tax = 0 /\ totalAmount = Num(0)) ]_vars

\* C22: when the scan has enumerated every service's characteristics, the
\* endpoint connect() binds is writable; no writable characteristic of the
\* list has a UUID of higher rank (primary target over alternate over standard
\* fallback over any other); and an endpoint of no known UUID is the first
\* writable characteristic in enumeration order.
C22_KnownEndpointPreferred ==
    [][ (connPc = "scan" /\ connPc' = "wakeup")
        => LET b == characteristic'
               Rank(u) == CASE u = UUID.TARGET_WRITE -> 3
                            [] u = UUID.ALT_WRITE -> 2
                            [] u = UUID.FALLBACK_WRITE -> 1
                            [] OTHER -> 0
               list == connServices.list
               Writable(c) == c.write \/ c.writeWithoutResponse
               Earlier(i, j, k, l) == i < k \/ (i = k /\ j < l)
           IN  /\ Writable(b)
               /\ \A i \in 1..Len(list) : \A j \in 1..Len(list[i].chars) :
                     Writable(list[i].chars[j]) => Rank(list[i].chars[j].uuid) <= Rank(b.uuid)
               /\ Rank(b.uuid) = 0
                    => \E k \in 1..Len(list) : \E l \in 1..Len(list[k].chars) :
                          /\ Writable(list[k].chars[l])
                          /\ list[k].chars[l].uuid = b.uuid
                          /\ list[k].chars[l].write = b.write
                          /\ \A i \in 1..Len(list) : \A j \in 1..Len(list[i].chars) :
                                Earlier(i, j, k, l) => ~Writable(list[i].chars[j]) ]_vars

\* C23: connect() gives up with the discovery error only after more than one
\* enumeration pass: a first pass that finds no writable endpoint is followed
\* by another enumeration, not by the failure.
C23_EnumerationRetried ==
    [][ (connPc = "scan" /\ lastOp'.name = "connect"
            /\ lastOp'.info = "No writable ports found. See logs.")
        => connServices.pass >= 2 ]_vars

C25_SecondPrintNotQueued ==
    [][ (/\ printPc = "idle" /\ printPc' # "idle"
         /\ otherTap' = otherTap
         /\ otherTap.printPc \notin {"idle", "restore"}
         /\ printerStatus.isConnected /\ isConnected)
        => /\ printPc' = "write"
           /\ pendingChar' = characteristic
           /\ run'.outcome = "none" ]_vars

\* both receipts are in flight and the printer has taken the first chunk of
\* each and then the second chunk of each: whichever was first, a chunk of the
\* other lies between its two
C25_Witness ==
    /\ printPc \notin {"idle", "restore"}
    /\ otherTap.printPc \notin {"idle", "restore"}
    /\ written = << <<ESC, AT>>, <<ESC, AT>>, ALIGN_CENTER, ALIGN_CENTER >>

\* C26: whenever writeCommand issues the first attempt of a chunk, the attempt
\* is writeValueWithoutResponse exactly when the endpoint it is issued on
\* advertises writeWithoutResponse and writeValue otherwise; every chunk the
\* printer takes is followed by the pacing delay, and a later chunk of the
\* same array is issued only when that delay has elapsed.
C26_FirstAttemptModeAndPacing ==
    [][ /\ (printPc' = "write" /\ printPc # "write")
           => /\ chunk'.first = IF pendingChar'.writeWithoutResponse
                                THEN "withoutResponse" ELSE "withResponse"
              /\ chunk'.retries = 0
              /\ curOff' > 0 => (printPc = "pace" /\ curOff' = curOff + CHUNK_SIZE)
        /\ Len(written') > Len(written) => printPc' = "pace" ]_vars

\* C27: in the document of printReceipt, for every mode and input, with
\* emphasis and size taken as printer state set by the opcodes added: every
\* EMPHASIS_ON is followed by an EMPHASIS_OFF and every SIZE_DOUBLE by a
\* SIZE_NORMAL with exactly one text row in between, so no later row is
\* printed in the format of an earlier one, and at the end of the document
\* emphasis is off and the size is normal.
C27_FormatStateNeverLeaks ==
    LET IsText(x) == x[1] \notin {ESC, GS, 28, LF}
        Closed(on, off) ==
            \A j \in 1..Len(adds) :
                adds[j] = on =>
                    \E l \in (j + 1)..Len(adds) :
                        /\ adds[l] = off
                        /\ \A k \in (j + 1)..(l - 1) : adds[k] # on /\ adds[k] # off
                        /\ Cardinality({k \in (j + 1)..(l - 1) : IsText(adds[k])}) = 1
        OffAtEnd(on, off) ==
            \A j \in 1..Len(adds) :
                adds[j] = on => \E l \in (j + 1)..Len(adds) : adds[l] = off
    IN  /\ Closed(EMPHASIS_ON, EMPHASIS_OFF) /\ Closed(SIZE_DOUBLE, SIZE_NORMAL)
        /\ OffAtEnd(EMPHASIS_ON, EMPHASIS_OFF) /\ OffAtEnd(SIZE_DOUBLE, SIZE_NORMAL)

\* a RECEIPT has been composed: its title was printed in double size and its
\* total emphasised and in double size
C27_Witness ==
    /\ receiptArgs.mode = "RECEIPT"
    /\ \E j \in 1..Len(adds) :
           /\ adds[j] = EMPHASIS_ON /\ adds[j + 1] = SIZE_DOUBLE
           /\ adds[j + 2] = Row("total", receiptArgs)
    /\ Cardinality({j \in 1..Len(adds) : adds[j] = SIZE_DOUBLE}) = 2

\* C28: when convertImageToEscPos resolves, the width of the raster is at most
\* 384 dots and a multiple of 8, the header's xL + 256*xH is the number of
\* bytes of a row and its yL + 256*yH the number of rows of the canvas, and
\* the bytes after the 8-byte header number bytes-per-row times rows.
C28_RasterHeaderMatchesData ==
    (lastOp.name = "convertImageToEscPos" /\ lastOp.info = "resolved") =>
        LET r == adds[1]
            img == receiptArgs.logoUrl
            xHeader == r[5] + 256 * r[6]
            yHeader == r[7] + 256 * r[8]
            rows == IF img.width > 384 THEN (img.height * 384) \div img.width
                    ELSE img.height
        IN  /\ 8 * xHeader <= 384
            /\ 8 * xHeader = IF img.width > 384 THEN 384 ELSE (img.width \div 8) * 8
            /\ yHeader = rows
            /\ Len(r) - 8 = xHeader * yHeader

C30_BoundedAttemptsAuthNotRetried ==
    [][ LET settles == ocr.pc = "request" /\ ocr'.pc # "request"
            outcome == ocr'.seen[Len(ocr'.seen)]
        IN  /\ Len(ocr'.seen) <= ocr'.maxAttempts
            /\ (settles /\ outcome # "ok" /\ Len(ocr'.seen) = ocr'.maxAttempts)
                   => ocr'.pc = "thrown"
            /\ (settles /\ outcome \in {"400", "403", "invalid api key"})
                   => ocr'.pc = "thrown" ]_vars

\* C38: no two lines of the cart have the same id. A step that adds to the
\* cart either raises the quantity of one line by exactly 1 and leaves every
\* other line and the number of lines as they were, or appends exactly one
\* line, of quantity 1, whose id was not in the cart.
C38_CartIdsUnique ==
    [][ /\ \A i, j \in 1..Len(cart') : cart'[i].id = cart'[j].id => i = j
        /\ Len(cart') = Len(cart) + 1
               => /\ SubSeq(cart', 1, Len(cart)) = cart
                  /\ cart'[Len(cart')].quantity = 1
                  /\ ~InCart(cart'[Len(cart')].id)
        /\ (Len(cart') = Len(cart)
            /\ \E i \in 1..Len(cart) : cart'[i].quantity > cart[i].quantity)
               => \E i \in 1..Len(cart) :
                      /\ cart'[i] = [cart[i] EXCEPT !.quantity = @ + 1]
                      /\ \A j \in 1..Len(cart) : j # i => cart'[j] = cart[j] ]_vars

\* a product was scanned twice and another one once: two lines, the first of
\* quantity 2
C38_Witness ==
    /\ Len(cart) = 2
    /\ cart[1].id = "A" /\ cart[1].quantity = 2
    /\ cart[2].id = "B" /\ cart[2].quantity = 1

\* C35: isConnected() holds only when the bound characteristic was discovered
\* on the device that is held; in particular not after a connect() to
\* another device that failed during discovery.
C35_EndpointOfCurrentDevice ==
    isConnected => characteristic.dev = device

\* C36: whenever a characteristic is bound a device handle is held, also
\* when disconnect() or a disconnect event falls into a connect() that is
\* waiting.
C36_EndpointImpliesDevice ==
    characteristic # NoChar => device # NoDevice

\* C37: the bytes handed to the intent by the flushes so far, followed by the
\* bytes still in this.buffer, are the bytes passed to print() so far, in the
\* order they were passed: none is dropped and none is sent twice; a flush
\* timer is pending whenever bytes are buffered, and no flush sends nothing.
C37_EveryByteFlushedOnce ==
    LET RECURSIVE Submitted(_)
        Submitted(k) == IF k = 0 THEN <<>>
                        ELSE Submitted(k - 1) \o Concat(calls[k].cmds)
    IN  /\ Concat(written) \o buffer = Submitted(Len(calls))
        /\ buffer # <<>> => timer
        /\ \A i \in 1..Len(written) : written[i] # <<>>

\* C31: a scan that fails on a rate-limit response sets the cooldown to 30; no
\* capture starts while the cooldown is above 0; once set, the cooldown only
\* changes by going down by one, never below 0; it reaches 0 in the end, and
\* at 0 the capture button of an idle camera works again.
C31_CooldownGatesCapture ==
    /\ [][ /\ (scanPc = "ocr" /\ scanPc' = "idle") => cooldown' = 30
           /\ (scanPc # "ocr" /\ scanPc' = "ocr") => cooldown = 0
           /\ (cooldown > 0 /\ cooldown' # cooldown)
                  => cooldown' = cooldown - 1 /\ cooldown' >= 0 ]_vars
    /\ [](cooldown = 0 /\ scanPc = "idle" /\ ~isProcessing => ENABLED HandleCapture)
    /\ (cooldown > 0) ~> (cooldown = 0)

\* C34: a call of fetchWithRetry makes at most retries + 1 fetch attempts and
\* ends. A response with a 4xx status other than 429 and 408 ends the call at
\* once; any other failure is followed by a retry while retries are left, and
\* a call that ends on such a failure has made retries + 1 attempts. The error
\* thrown to another caller than fetchDatabase is the one of the last attempt,
\* SheetError 'TIMEOUT' for the abort of the timeout.
C34_BoundedRetries ==
    /\ [](sheet.build = "later" /\ sheet.seen # <<>> =>
            LET last == sheet.seen[Len(sheet.seen)]
                failed == ~(last.kind = "response" /\ last.status \in 200..299)
                client == /\ last.kind = "response"
                          /\ last.status \in 400..499 /\ last.status \notin {429, 408}
            IN  /\ sheet.attempts <= sheet.r0 + 1
                /\ Len(sheet.seen) \in {sheet.attempts, sheet.attempts - 1}
                /\ failed /\ client => sheet.pc \in {"returned", "thrown"}
                                       /\ Len(sheet.seen) = sheet.attempts
                /\ failed /\ ~client /\ sheet.pc \in {"returned", "thrown"}
                       => sheet.attempts = sheet.r0 + 1
                /\ failed /\ ~client /\ Len(sheet.seen) <= sheet.r0
                       => sheet.pc \in {"wait", "fetch"}
                /\ sheet.caller = "other" =>
                       /\ sheet.pc = "thrown" <=> failed /\ Len(sheet.seen) = sheet.attempts
                                                  /\ (client \/ sheet.attempts = sheet.r0 + 1)
                       /\ sheet.pc = "thrown" =>
                              sheet.result.error =
                                  IF last.kind = "AbortError" THEN "TIMEOUT"
                                  ELSE IF last.kind = "response"
                                       THEN "HTTP_" \o ToString(last.status)
                                  ELSE last.kind)
    /\ (sheet.pc \in {"fetch", "wait"} /\ sheet.build = "later")
           ~> (sheet.pc \in {"returned", "thrown"})

\* a call with two retries has thrown SheetError 'TIMEOUT' after a 500, a 429
\* and an abort
C34_Witness ==
    /\ sheet.caller = "other" /\ sheet.r0 = 2 /\ sheet.attempts = 3
    /\ sheet.pc = "thrown" /\ sheet.result.error = "TIMEOUT"
    /\ sheet.seen = << [kind |-> "response", status |-> 500, body |-> "csv"],
                       [kind |-> "response", status |-> 429, body |-> "csv"],
                       [kind |-> "AbortError", status |-> 0, body |-> "csv"] >>

=============================================================================
